---------------------------- MODULE Spec2Model ----------------------------
(***************************************************************************)
(* lambdaVis: an interpreter for the untyped lambda calculus.             *)
(*                                                                         *)
(* Text is a TLA+ string; the character at index i (1-based) of s is the   *)
(* one-character string SubSeq(s, i, i).  An AST node is a record with a   *)
(* "type" field, as in the source: a variable has an id, a lambda an id    *)
(* and an expression, an application a left and a right.  The renderer's   *)
(* uid / replacedUid / colour tags are not part of the calculus and are    *)
(* left out.                                                               *)
(***************************************************************************)
EXTENDS Integers, Sequences, FiniteSets, TLC

VARIABLES
    lambdaString,      \* value of the #lambdaString input box
    data,              \* the current expression tree (renderer state)
    previousData,      \* the undo stack (renderer state)
    reduction,         \* what the last findAndReduce of update() returned
    pc,                \* position inside update(): "idle" or "reduced"
    consumableString,  \* the parse cursor of the last parseAndLoad
    alerted,           \* message of the last alert() of parseAndLoad, or ""
    currentExpression, \* text shown in #current-expr
    heap               \* the node objects behind data and previousData

vars == <<lambdaString, data, previousData, reduction, pc, consumableString,
          alerted, currentExpression, heap>>

-----------------------------------------------------------------------------
(* Node types and constructors                                             *)

VARIABLE_T == "variable"
LAMBDA_T == "lambda"
APPLICATION_T == "application"

NULL == [type |-> "null"]

Var(id) == [type |-> VARIABLE_T, id |-> id]
Lam(id, expression) == [type |-> LAMBDA_T, id |-> id, expression |-> expression]
App(left, right) == [type |-> APPLICATION_T, left |-> left, right |-> right]

-----------------------------------------------------------------------------
(* JavaScript string primitives                                            *)

Char(s, i) == SubSeq(s, i, i)

\* the characters matched by \s (and removed by trim) that the inputs use
IsSpace(c) == c \in {" ", "\n", "\t"}

\* s.substring(n)
substring(s, n) == SubSeq(s, n + 1, Len(s))

RECURSIVE trimStart(_)
trimStart(s) ==
    IF Len(s) > 0 /\ IsSpace(Char(s, 1)) THEN trimStart(substring(s, 1)) ELSE s

RECURSIVE trimEnd(_)
trimEnd(s) ==
    IF Len(s) > 0 /\ IsSpace(Char(s, Len(s)))
    THEN trimEnd(SubSeq(s, 1, Len(s) - 1)) ELSE s

\* s.trim()
trim(s) == trimEnd(trimStart(s))

-----------------------------------------------------------------------------
(* The infix parser (parseChurchLambdaString.js).  A parse function takes  *)
(* the cursor consumableString[0] and returns the node with the new        *)
(* cursor, or the Error it throws.                                         *)

Ok(node, cs) == [threw |-> FALSE, node |-> node, cs |-> cs, message |-> ""]
Throw(message, cs) == [threw |-> TRUE, node |-> NULL, cs |-> cs, message |-> message]

\* the character class [^\(\):\s]
IsVariableChar(c) == c \notin {"(", ")", ":"} /\ ~IsSpace(c)

\* length of the match of /^[^\(\):\s]+/ on s (0: no match)
RECURSIVE variableMatch(_, _)
variableMatch(s, n) ==
    IF n < Len(s) /\ IsVariableChar(Char(s, n + 1)) THEN variableMatch(s, n + 1) ELSE n

\* faulty variant: the character class lets ')' into an identifier
parseVariableGreedy(cs) ==
    LET string == trim(cs)
        RECURSIVE greedyMatch(_)
        greedyMatch(n) ==
            IF n < Len(string) /\ Char(string, n + 1) \notin {"(", ":"}
                               /\ ~IsSpace(Char(string, n + 1))
            THEN greedyMatch(n + 1) ELSE n
        n == greedyMatch(0)
    IN  IF n = 0 THEN Throw("Parse failure: invalid variable", cs)
        ELSE Ok(Var(SubSeq(string, 1, n)), substring(string, n))

parseVariable(cs) ==
    LET string == trim(cs)
        n == variableMatch(string, 0)
    IN  IF n = 0 THEN Throw("Parse failure: invalid variable", cs)
        ELSE Ok(Var(SubSeq(string, 1, n)), substring(string, n))

\* index of the first character at or after i that satisfies neither \s (skips \s*)
RECURSIVE skipSpaces(_, _)
skipSpaces(s, i) ==
    IF i <= Len(s) /\ IsSpace(Char(s, i)) THEN skipSpaces(s, i + 1) ELSE i

\* index of the first character at or after i that is one of ( ) . :  (Len+1: none)
RECURSIVE headerEnd(_, _)
headerEnd(s, i) ==
    IF i <= Len(s) /\ Char(s, i) \notin {"(", ")", ".", ":"} THEN headerEnd(s, i + 1) ELSE i

\* /^:\s*([^\(\)\.:\s][^\(\)\.:]*)\./ on s: [matched, first |-> start of group 1,
\* dot |-> index of the closing dot = length of match[0]]
lambdaMatch(s) ==
    IF Len(s) = 0 \/ Char(s, 1) # ":" THEN [matched |-> FALSE, first |-> 0, dot |-> 0]
    ELSE LET f == skipSpaces(s, 2)
             d == headerEnd(s, f)
         IN  IF f <= Len(s) /\ d > f /\ d <= Len(s) /\ Char(s, d) = "."
             THEN [matched |-> TRUE, first |-> f, dot |-> d]
             ELSE [matched |-> FALSE, first |-> 0, dot |-> 0]

\* str.match(/\S+/g): the maximal runs of non-space characters, in order
RECURSIVE matchNonSpace(_)
matchNonSpace(s) ==
    LET t == trimStart(s)
        RECURSIVE run(_)
        run(n) == IF n < Len(t) /\ ~IsSpace(Char(t, n + 1)) THEN run(n + 1) ELSE n
        k == run(0)
    IN  IF Len(t) = 0 THEN << >>
        ELSE <<SubSeq(t, 1, k)>> \o matchNonSpace(substring(t, k))

\* faulty variant: the parameters are nested innermost first
RECURSIVE lambdaChainReversed(_, _)
lambdaChainReversed(ids, expression) ==
    IF Len(ids) = 0 THEN expression
    ELSE Lam(ids[Len(ids)],
             lambdaChainReversed(SubSeq(ids, 1, Len(ids) - 1), expression))

RECURSIVE lambdaChain(_, _)
lambdaChain(ids, expression) ==
    IF Len(ids) = 0 THEN expression
    ELSE Lam(ids[1], lambdaChain(Tail(ids), expression))

\* faulty variant: the chain is nested to the right
RECURSIVE applicationChainRight(_)
applicationChainRight(expressions) ==
    IF Len(expressions) = 0 THEN Throw("Parse error: empty expression", "")
    ELSE IF Len(expressions) = 1 THEN Ok(expressions[1], "")
    ELSE Ok(App(expressions[1], applicationChainRight(Tail(expressions)).node), "")

RECURSIVE applicationChain(_)
applicationChain(expressions) ==
    IF Len(expressions) = 0 THEN Throw("Parse error: empty expression", "")
    ELSE IF Len(expressions) = 1 THEN Ok(expressions[1], "")
    ELSE Ok(App(applicationChain(SubSeq(expressions, 1, Len(expressions) - 1)).node,
                expressions[Len(expressions)]), "")

RECURSIVE parseExpression(_)
RECURSIVE parseExpressionLoop(_, _)
RECURSIVE parseLambda(_)
RECURSIVE parseParenthetical(_)

\* faulty variant: the closing parenthesis is taken when present, not required
parseParentheticalLenient(cs) ==
    LET string == trim(cs)
    IN  IF Len(string) = 0 \/ Char(string, 1) # "("
        THEN Throw("Parse error: expected '('", cs)
        ELSE LET r == parseExpression(substring(string, 1))
             IN  IF r.threw THEN r
                 ELSE LET string2 == trim(r.cs)
                      IN  IF Len(string2) = 0 \/ Char(string2, 1) # ")"
                          THEN Ok(r.node, string2)
                          ELSE Ok(r.node, substring(string2, 1))

\* faulty variant: the whole header is taken as one identifier
parseLambdaSingle(cs) ==
    LET string == trim(cs)
        match == lambdaMatch(string)
    IN  IF ~match.matched THEN Throw("Parse error: invalid lambda syntax", cs)
        ELSE LET ids == <<trim(SubSeq(string, match.first, match.dot - 1))>>
                 r == parseExpression(substring(string, match.dot))
             IN  IF r.threw THEN r ELSE Ok(lambdaChain(ids, r.node), r.cs)

parseLambda(cs) ==
    LET string == trim(cs)
        match == lambdaMatch(string)
    IN  IF ~match.matched THEN Throw("Parse error: invalid lambda syntax", cs)
        ELSE LET ids == matchNonSpace(SubSeq(string, match.first, match.dot - 1))
                 r == parseExpression(substring(string, match.dot))
             IN  IF r.threw THEN r ELSE Ok(lambdaChain(ids, r.node), r.cs)

parseParenthetical(cs) ==
    LET string == trim(cs)
    IN  IF Len(string) = 0 \/ Char(string, 1) # "("
        THEN Throw("Parse error: expected '('", cs)
        ELSE LET r == parseExpression(substring(string, 1))
             IN  IF r.threw THEN r
                 ELSE LET string2 == trim(r.cs)
                      IN  IF Len(string2) = 0 \/ Char(string2, 1) # ")"
                          THEN Throw("Parse error: expected ')'", r.cs)
                          ELSE Ok(r.node, substring(string2, 1))

\* the while loop of parseExpression, then applicationChain
parseExpressionLoop(cs, expressions) ==
    LET string == trim(cs)
    IN  IF Len(string) > 0 /\ Char(string, 1) # ")"
        THEN LET r == IF Char(string, 1) = "(" THEN parseParenthetical(cs)
                      ELSE IF Char(string, 1) = ":" THEN parseLambda(cs)
                      ELSE IF IsVariableChar(Char(string, 1)) THEN parseVariable(cs)
                      ELSE Throw("Parse error: unexpected character", cs)
             IN  IF r.threw THEN r
                 ELSE parseExpressionLoop(r.cs, Append(expressions, r.node))
        ELSE LET a == applicationChain(expressions)
             IN  IF a.threw THEN Throw(a.message, cs) ELSE Ok(a.node, cs)

parseExpression(cs) == parseExpressionLoop(cs, << >>)

-----------------------------------------------------------------------------
(* Tree utilities (common.js).  A node reference is modelled by the path   *)
(* of field names that leads to it from the root.                          *)

RECURSIVE deepCopy(_)
deepCopy(obj) ==
    IF obj.type = VARIABLE_T THEN Var(obj.id)
    ELSE IF obj.type = LAMBDA_T THEN Lam(obj.id, deepCopy(obj.expression))
    ELSE IF obj.type = APPLICATION_T THEN App(deepCopy(obj.left), deepCopy(obj.right))
    ELSE obj

RECURSIVE NodeAt(_, _)
NodeAt(root, path) ==
    IF Len(path) = 0 THEN root ELSE NodeAt(root[Head(path)], Tail(path))

RECURSIVE ReplaceAt(_, _, _)
ReplaceAt(root, path, node) ==
    IF Len(path) = 0 THEN node
    ELSE [root EXCEPT ![Head(path)] = ReplaceAt(root[Head(path)], Tail(path), node)]

\* faulty variant: the target keeps its own fields
copyIntoNothing(root, target, source) == root

\* copyInto(target, source) where target and source are nodes of the tree root:
\* the node at target takes over every field of the node at source
copyInto(root, target, source) == ReplaceAt(root, target, NodeAt(root, source))

-----------------------------------------------------------------------------
(* Name analysis (lambdaCalculus.js)                                       *)

RECURSIVE collectFreeVars(_, _)
collectFreeVars(node, bound) ==
    IF node.type = VARIABLE_T THEN (IF node.id \in bound THEN {} ELSE {node.id})
    ELSE IF node.type = LAMBDA_T THEN collectFreeVars(node.expression, bound \cup {node.id})
    ELSE IF node.type = APPLICATION_T
         THEN collectFreeVars(node.left, bound) \cup collectFreeVars(node.right, bound)
    ELSE {}

RECURSIVE collectAllNames(_)
collectAllNames(node) ==
    IF node.type = VARIABLE_T THEN {node.id}
    ELSE IF node.type = LAMBDA_T THEN {node.id} \cup collectAllNames(node.expression)
    ELSE IF node.type = APPLICATION_T
         THEN collectAllNames(node.left) \cup collectAllNames(node.right)
    ELSE {}

RECURSIVE countVarUses(_, _)
countVarUses(node, varId) ==
    IF node.type = VARIABLE_T THEN (IF node.id = varId THEN 1 ELSE 0)
    ELSE IF node.type = LAMBDA_T
         THEN (IF node.id = varId THEN 0 ELSE countVarUses(node.expression, varId))
    ELSE IF node.type = APPLICATION_T
         THEN countVarUses(node.left, varId) + countVarUses(node.right, varId)
    ELSE 0

RECURSIVE renameInBody(_, _, _)
renameInBody(node, oldId, newId) ==
    IF node.type = VARIABLE_T THEN (IF node.id = oldId THEN Var(newId) ELSE node)
    ELSE IF node.type = LAMBDA_T
         THEN (IF node.id = oldId THEN node
               ELSE Lam(node.id, renameInBody(node.expression, oldId, newId)))
    ELSE IF node.type = APPLICATION_T
         THEN App(renameInBody(node.left, oldId, newId),
                  renameInBody(node.right, oldId, newId))
    ELSE node

\* String(n) for n >= 0, as in the concatenation id + suffix
RECURSIVE numberToString(_)
numberToString(n) ==
    IF n < 10 THEN Char("0123456789", n + 1)
    ELSE numberToString(n \div 10) \o Char("0123456789", (n % 10) + 1)

-----------------------------------------------------------------------------
(* Capture-avoiding substitution (lambdaCalculus.js).  parentVars is the   *)
(* scope map (its keys), substitutions the renaming map; both are mutated  *)
(* by the source and so are threaded through and returned.                 *)

\* the property names that every object literal {} inherits from Object.prototype
ObjectPrototypeNames ==
    {"constructor", "toString", "valueOf", "hasOwnProperty", "isPrototypeOf",
     "propertyIsEnumerable", "toLocaleString", "__proto__", "__defineGetter__",
     "__defineSetter__", "__lookupGetter__", "__lookupSetter__"}

\* the inherited value of such a property, as the text it is displayed as
Inherited(key) ==
    IF key = "__proto__" THEN "[object Object]"
    ELSE "function " \o (IF key = "constructor" THEN "Object" ELSE key)
                     \o "() { [native code] }"

\* parentVars[name] !== undefined, for the scope map that starts as {}
InScope(parentVars, name) == name \in parentVars \/ name \in ObjectPrototypeNames

\* parentVars[name] = ..., on the keys of the map: an assignment to __proto__
\* of a value that is not an object adds no key
WithKey(parentVars, name) ==
    IF name = "__proto__" THEN parentVars ELSE parentVars \cup {name}

\* the keys after `if (prev !== undefined) parentVars[name] = prev; else delete
\* parentVars[name]`, where prev was read from the map before and after is the
\* map now: an inherited prev is written back as a property of the map itself
Restored(before, after, name) ==
    IF InScope(before, name) THEN WithKey(after, name) ELSE after \ {name}

\* the while loop of alphaSubstitute: first id+suffix that is not in scope
RECURSIVE alphaNewName(_, _, _)
alphaNewName(id, suffix, parentVars) ==
    IF InScope(parentVars, id \o numberToString(suffix))
    THEN alphaNewName(id, suffix + 1, parentVars)
    ELSE id \o numberToString(suffix)

Without(f, k) == [x \in DOMAIN f \ {k} |-> f[x]]

RECURSIVE alphaSubstitute(_, _, _)
alphaSubstitute(root, parentVars, substitutions) ==
    IF root.type = VARIABLE_T THEN
        \* substitutions[root.id], for the renaming map that starts as {}
        [root |-> IF root.id \in DOMAIN substitutions
                  THEN Var(substitutions[root.id])
                  ELSE IF root.id \in ObjectPrototypeNames
                       THEN Var(Inherited(root.id)) ELSE root,
         parentVars |-> parentVars, substitutions |-> substitutions]
    ELSE IF root.type = LAMBDA_T THEN
        LET id == root.id
        IN  IF InScope(parentVars, id)
            THEN LET newName == alphaNewName(id, 1, parentVars)
                     r == alphaSubstitute(root.expression, parentVars \cup {newName},
                                          (id :> newName) @@ substitutions)
                 IN  [root |-> Lam(newName, r.root),
                      parentVars |-> r.parentVars \ {newName},
                      substitutions |->
                          IF id \in DOMAIN substitutions
                          THEN (id :> substitutions[id]) @@ r.substitutions
                          ELSE Without(r.substitutions, id)]
            ELSE LET r == alphaSubstitute(root.expression, parentVars, substitutions)
                 IN  [root |-> Lam(id, r.root), parentVars |-> r.parentVars,
                      substitutions |-> r.substitutions]
    ELSE IF root.type = APPLICATION_T THEN
        LET l == alphaSubstitute(root.left, parentVars, substitutions)
            r == alphaSubstitute(root.right, l.parentVars, l.substitutions)
        IN  [root |-> App(l.root, r.root), parentVars |-> r.parentVars,
             substitutions |-> r.substitutions]
    ELSE [root |-> root, parentVars |-> parentVars, substitutions |-> substitutions]

\* the while loop of betaReduce: first id+suffix free of all three name sets
RECURSIVE betaNewName(_, _, _, _, _)
betaNewName(id, suffix, parentVars, freeVars, bodyNames) ==
    LET newName == id \o numberToString(suffix)
    IN  IF InScope(parentVars, newName) \/ newName \in freeVars \/ newName \in bodyNames
        THEN betaNewName(id, suffix + 1, parentVars, freeVars, bodyNames)
        ELSE newName

\* faulty variant: a binder is never renamed
renameBinderNever(root, id, parentVars, freeVars) == root

\* the Lambda branch's renaming of a binder that is free in the substitute
renameBinder(root, id, parentVars, freeVars) ==
    IF root.id # id /\ root.id \in freeVars
    THEN LET newName == betaNewName(root.id, 1, parentVars, freeVars,
                                    collectAllNames(root.expression))
         IN  Lam(newName, renameInBody(root.expression, root.id, newName))
    ELSE root

RECURSIVE betaReduce(_, _, _, _, _)
betaReduce(root, id, sub, parentVars, freeVars) ==
    IF root.type = VARIABLE_T THEN
        IF root.id = id
        THEN LET a == alphaSubstitute(deepCopy(sub), parentVars, << >>)
             IN  [root |-> a.root, parentVars |-> a.parentVars]
        ELSE [root |-> root, parentVars |-> parentVars]
    ELSE IF root.type = LAMBDA_T THEN
        LET renamed == renameBinder(root, id, parentVars, freeVars)
            r == betaReduce(renamed.expression, id, sub,
                            WithKey(parentVars, renamed.id), freeVars)
        IN  [root |-> Lam(renamed.id, r.root),
             parentVars |-> Restored(parentVars, r.parentVars, renamed.id)]
    ELSE IF root.type = APPLICATION_T THEN
        LET l == betaReduce(root.left, id, sub, parentVars, freeVars)
            r == betaReduce(root.right, id, sub, l.parentVars, freeVars)
        IN  [root |-> App(l.root, r.root), parentVars |-> r.parentVars]
    ELSE [root |-> root, parentVars |-> parentVars]

-----------------------------------------------------------------------------
(* One-step reduction (lambdaCalculus.js).  The result carries the tree as *)
(* mutated in place, the scope map as left behind, and, when a redex was   *)
(* found, the descriptor: applicationNode is the path of the redex, and    *)
(* reducedExpression the path of its lambda's body.                        *)

NotFound(root, parentVars) ==
    [found |-> FALSE, root |-> root, parentVars |-> parentVars,
     applicationNode |-> << >>, reducedExpression |-> << >>]

\* faulty variant: a reduction found in a right child is not reported
UnderLeftOnly(field, node, r) ==
    [found |-> r.found /\ field # "right",
     root |-> [node EXCEPT ![field] = r.root],
     parentVars |-> r.parentVars,
     applicationNode |-> IF r.found THEN <<field>> \o r.applicationNode ELSE << >>,
     reducedExpression |-> IF r.found THEN <<field>> \o r.reducedExpression ELSE << >>]

\* a result found in the child `field` of a node, seen from that node
Under(field, node, r) ==
    [found |-> r.found,
     root |-> [node EXCEPT ![field] = r.root],
     parentVars |-> r.parentVars,
     applicationNode |-> IF r.found THEN <<field>> \o r.applicationNode ELSE << >>,
     reducedExpression |-> IF r.found THEN <<field>> \o r.reducedExpression ELSE << >>]

\* faulty variant: a single use already sends the search into the argument
argumentFirstOnAnyUse(root) == countVarUses(root.left.expression, root.left.id) > 0

\* the multi-use test of findAndReduce
argumentFirst(root) == countVarUses(root.left.expression, root.left.id) > 1

\* faulty variant: the body is left as it is, nothing is substituted
reduceRedexNoSubstitution(root, parentVars) ==
    [found |-> TRUE,
     root |-> root,
     parentVars |-> parentVars,
     applicationNode |-> << >>,
     reducedExpression |-> <<"left", "expression">>]

\* the redex branch of findAndReduce: substitute into the body, do not collapse
reduceRedex(root, parentVars) ==
    LET expressionToReduce == root.left.expression
        subExpression == root.right
        freeVars == collectFreeVars(subExpression, {})
        b == betaReduce(expressionToReduce, root.left.id, subExpression,
                        parentVars, freeVars)
    IN  [found |-> TRUE,
         root |-> App(Lam(root.left.id, b.root), subExpression),
         parentVars |-> b.parentVars,
         applicationNode |-> << >>,
         reducedExpression |-> <<"left", "expression">>]

\* faulty variant: a lambda applied to an argument is passed over when its
\* body is an application, and the search goes on beneath it
leftIsLambdaWithSmallBody(root) ==
    root.left.type = LAMBDA_T /\ root.left.expression.type # APPLICATION_T

\* the redex test of findAndReduce at an Application node
leftIsLambda(root) == root.left.type = LAMBDA_T

RECURSIVE findAndReduce(_, _)
findAndReduce(root, parentVars) ==
    IF root.type = VARIABLE_T THEN NotFound(root, parentVars)
    ELSE IF root.type = LAMBDA_T THEN
        LET r == findAndReduce(root.expression, WithKey(parentVars, root.id))
            u == Under("expression", root, r)
        IN  [u EXCEPT !.parentVars = Restored(parentVars, r.parentVars, root.id)]
    ELSE IF root.type = APPLICATION_T THEN
        IF leftIsLambda(root) THEN
            LET argReduction == IF argumentFirst(root)
                                THEN findAndReduce(root.right, parentVars)
                                ELSE NotFound(root.right, parentVars)
            IN  IF argReduction.found THEN Under("right", root, argReduction)
                ELSE reduceRedex(root, argReduction.parentVars)
        ELSE LET l == findAndReduce(root.left, parentVars)
             IN  IF l.found THEN Under("left", root, l)
                 ELSE Under("right", [root EXCEPT !.left = l.root],
                            findAndReduce(root.right, l.parentVars))
    ELSE NotFound(root, parentVars)

-----------------------------------------------------------------------------
(* Alpha-equivalence (common.js).  aToB and bToA are object literals that  *)
(* start as {}: a lookup finds an own property, else an inherited one.     *)

\* map[key] for such an object: the own value, an inherited one, or undefined
Lookup(map, key) ==
    IF key \in DOMAIN map THEN [kind |-> "own", value |-> map[key]]
    ELSE IF key \in ObjectPrototypeNames
         THEN [kind |-> "inherited", value |-> Inherited(key)]
    ELSE [kind |-> "undefined", value |-> ""]

\* the Variable branch of alphaEquivHelper
alphaEquivVariable(a, b, aToB, bToA) ==
    LET aMapped == Lookup(aToB, a.id)
        bMapped == Lookup(bToA, b.id)
    IN  IF aMapped.kind # "undefined" \/ bMapped.kind # "undefined"
        THEN /\ aMapped.kind = "own" /\ aMapped.value = b.id
             /\ bMapped.kind = "own" /\ bMapped.value = a.id
        ELSE a.id = b.id

RECURSIVE alphaEquivHelper(_, _, _, _)
alphaEquivHelper(a, b, aToB, bToA) ==
    IF a.type # b.type THEN FALSE
    ELSE IF a.type = VARIABLE_T THEN alphaEquivVariable(a, b, aToB, bToA)
    ELSE IF a.type = LAMBDA_T
         THEN alphaEquivHelper(a.expression, b.expression,
                               (a.id :> b.id) @@ aToB, (b.id :> a.id) @@ bToA)
    ELSE IF a.type = APPLICATION_T
         THEN /\ alphaEquivHelper(a.left, b.left, aToB, bToA)
              /\ alphaEquivHelper(a.right, b.right, aToB, bToA)
    ELSE FALSE

alphaEquivalent(a, b) == alphaEquivHelper(a, b, << >>, << >>)

-----------------------------------------------------------------------------
(* The unparser for the infix notation                                     *)

RECURSIVE expressionToString(_)
RECURSIVE lambdaToString(_, _)

\* the while loop of lambdaToString: str is the header built so far
lambdaToString(str, expression) ==
    IF expression.type = LAMBDA_T
    THEN lambdaToString(str \o " " \o expression.id, expression.expression)
    ELSE str \o "." \o expressionToString(expression)

applicationToString(application) ==
    LET str == expressionToString(application.left)
        rightStr == expressionToString(application.right)
    IN  IF application.right.type = APPLICATION_T
        THEN str \o "(" \o rightStr \o ")"
        ELSE str \o " " \o rightStr

expressionToString(expression) ==
    IF expression.type = VARIABLE_T THEN expression.id
    ELSE IF expression.type = LAMBDA_T
         THEN lambdaToString(":" \o expression.id, expression.expression)
    ELSE IF expression.type = APPLICATION_T THEN applicationToString(expression)
    ELSE "(error)"

-----------------------------------------------------------------------------
(* The prefix notation (lambdaRenderer.js): @ for application, : for lambda *)

\* the character class [^@:\s]
IsPrefixVariableChar(c) == c \notin {"@", ":"} /\ ~IsSpace(c)

\* length of the match of /[^@:\s]+/ at index i + 1 of s, added to n
RECURSIVE prefixVariableMatch(_, _)
prefixVariableMatch(s, n) ==
    IF n < Len(s) /\ IsPrefixVariableChar(Char(s, n + 1))
    THEN prefixVariableMatch(s, n + 1) ELSE n

parsePrefixVariable(cs) ==
    LET string == trim(cs)
        n == prefixVariableMatch(string, 0)
    IN  IF n = 0 THEN Throw("Parse failure: invalid variable", cs)
        ELSE Ok(Var(SubSeq(string, 1, n)), substring(string, n))

RECURSIVE parsePrefixExpression(_)

parsePrefixLambda(cs) ==
    LET string == trim(cs)
        \* /^:\s*([^@:\s]+)/: first is the index before group 1, last its end
        first == IF Len(string) > 0 /\ Char(string, 1) = ":"
                 THEN skipSpaces(string, 2) - 1 ELSE 0
        last == prefixVariableMatch(string, first)
    IN  IF Len(string) = 0 \/ Char(string, 1) # ":" \/ last = first
        THEN Throw("Parse failure: invalid lambda", cs)
        ELSE LET r == parsePrefixExpression(substring(string, last))
             IN  IF r.threw THEN r
                 ELSE Ok(Lam(SubSeq(string, first + 1, last), r.node), r.cs)

\* faulty variant: the operands are stored in the wrong order
parsePrefixApplicationSwapped(cs) ==
    LET string == trim(cs)
    IN  IF Len(string) = 0 \/ Char(string, 1) # "@"
        THEN Throw("Parse failure: invalid application", cs)
        ELSE LET l == parsePrefixExpression(substring(string, 1))
             IN  IF l.threw THEN l
                 ELSE LET r == parsePrefixExpression(l.cs)
                      IN  IF r.threw THEN r ELSE Ok(App(r.node, l.node), r.cs)

parsePrefixApplication(cs) ==
    LET string == trim(cs)
    IN  IF Len(string) = 0 \/ Char(string, 1) # "@"
        THEN Throw("Parse failure: invalid application", cs)
        ELSE LET l == parsePrefixExpression(substring(string, 1))
             IN  IF l.threw THEN l
                 ELSE LET r == parsePrefixExpression(l.cs)
                      IN  IF r.threw THEN r ELSE Ok(App(l.node, r.node), r.cs)

parsePrefixExpression(cs) ==
    LET string == trim(cs)
    IN  IF Len(string) > 0 /\ Char(string, 1) = ":" THEN parsePrefixLambda(cs)
        ELSE IF Len(string) > 0 /\ Char(string, 1) = "@" THEN parsePrefixApplication(cs)
        ELSE parsePrefixVariable(cs)

RECURSIVE expressionToPrefixString(_)
expressionToPrefixString(expression) ==
    IF expression.type = VARIABLE_T THEN expression.id
    ELSE IF expression.type = LAMBDA_T
         THEN ":" \o expression.id \o " " \o expressionToPrefixString(expression.expression)
    ELSE IF expression.type = APPLICATION_T
         THEN "@ " \o expressionToPrefixString(expression.left)
                   \o " " \o expressionToPrefixString(expression.right)
    ELSE "(error)"

-----------------------------------------------------------------------------
(* The macro preprocessor                                                  *)

\* the lookaround class [\s():.=]
IsBoundary(c) == IsSpace(c) \/ c \in {"(", ")", ":", ".", "="}

\* whether the pattern (?<=^|[\s():.=])name(?=$|[\s():.=]) matches at index i
macroMatchesAt(str, name, i) ==
    LET j == i + Len(name)
    IN  /\ j - 1 <= Len(str)
        /\ SubSeq(str, i, j - 1) = name
        /\ (i = 1 \/ IsBoundary(Char(str, i - 1)))
        /\ (j > Len(str) \/ IsBoundary(Char(str, j)))

\* what String.prototype.replace inserts for the replacement string template
\* at a match of name at index i of str: $$ is $, $& the match, $' the text
\* after it (the pattern has no capture groups, so $1 and the like stay as
\* they are; the inputs hold no $ followed by a backquote, the fourth pattern)
RECURSIVE substitution(_, _, _, _)
substitution(template, str, name, i) ==
    IF Len(template) = 0 THEN ""
    ELSE IF Len(template) >= 2 /\ Char(template, 1) = "$"
                               /\ Char(template, 2) \in {"$", "&", "'"}
         THEN (CASE Char(template, 2) = "$" -> "$"
                 [] Char(template, 2) = "&" -> name
                 [] OTHER -> SubSeq(str, i + Len(name), Len(str)))
              \o substitution(substring(template, 2), str, name, i)
         ELSE Char(template, 1) \o substitution(substring(template, 1), str, name, i)

\* str.replace(re, '(' + body + ')') with the g flag, scanning from index i
RECURSIVE replaceFrom(_, _, _, _)
replaceFrom(str, name, body, i) ==
    IF i > Len(str) THEN ""
    ELSE IF macroMatchesAt(str, name, i)
         THEN substitution("(" \o body \o ")", str, name, i)
              \o replaceFrom(str, name, body, i + Len(name))
         ELSE Char(str, i) \o replaceFrom(str, name, body, i + 1)

expandMacroInString(str, name, body) == replaceFrom(str, name, body, 1)

\* str.indexOf(c), 0-based; -1 when absent
RECURSIVE indexOfFrom(_, _, _)
indexOfFrom(s, c, i) ==
    IF i > Len(s) THEN -1
    ELSE IF Char(s, i) = c THEN i - 1
    ELSE indexOfFrom(s, c, i + 1)

indexOf(s, c) == indexOfFrom(s, c, 1)

\* input.split('\n')
RECURSIVE split(_)
split(input) ==
    LET k == indexOf(input, "\n")
    IN  IF k = -1 THEN <<input>>
        ELSE <<SubSeq(input, 1, k)>> \o split(substring(input, k + 1))

\* faulty variant: the lines are joined by the newline they were split on
RECURSIVE joinNewline(_)
joinNewline(lines) ==
    IF Len(lines) = 0 THEN ""
    ELSE IF Len(lines) = 1 THEN lines[1]
    ELSE lines[1] \o "\n" \o joinNewline(Tail(lines))

\* exprLines.join(' ')
RECURSIVE join(_)
join(lines) ==
    IF Len(lines) = 0 THEN ""
    ELSE IF Len(lines) = 1 THEN lines[1]
    ELSE lines[1] \o " " \o join(Tail(lines))

\* faulty variant: the macros are substituted from the last one to the first
RECURSIVE expandAllReversed(_, _)
expandAllReversed(str, macros) ==
    IF Len(macros) = 0 THEN str
    ELSE expandAllReversed(expandMacroInString(str, macros[Len(macros)].name,
                                               macros[Len(macros)].body),
                           SubSeq(macros, 1, Len(macros) - 1))

\* for (const m of macros) str = expandMacroInString(str, m.name, m.body)
RECURSIVE expandAll(_, _)
expandAll(str, macros) ==
    IF Len(macros) = 0 THEN str
    ELSE expandAll(expandMacroInString(str, macros[1].name, macros[1].body), Tail(macros))

\* the loop over the lines: [macros, exprLines] after all of them
RECURSIVE collectLines(_, _, _)
collectLines(lines, macros, exprLines) ==
    IF Len(lines) = 0 THEN [macros |-> macros, exprLines |-> exprLines]
    ELSE LET line == trim(Head(lines))
             eqIndex == indexOf(line, "=")
             name == trim(SubSeq(line, 1, eqIndex))
             body == trim(substring(line, eqIndex + 1))
         IN  IF line = "" THEN collectLines(Tail(lines), macros, exprLines)
             ELSE IF eqIndex # -1
                  THEN IF name = "" \/ body = ""
                       THEN collectLines(Tail(lines), macros, exprLines)
                       ELSE collectLines(Tail(lines),
                                Append(macros, [name |-> name,
                                                body |-> expandAll(body, macros)]),
                                exprLines)
             ELSE collectLines(Tail(lines), macros, Append(exprLines, line))

expandMacros(input) ==
    LET c == collectLines(split(input), << >>, << >>)
    IN  IF Len(c.exprLines) = 0 THEN trim(input)
        ELSE expandAll(join(c.exprLines), c.macros)

-----------------------------------------------------------------------------
(* The objects.  The operators above compute with tree values; here the same *)
(* code is followed on the objects it mutates.  objects is the sequence of   *)
(* the allocated node objects, a node is referred to by its index, and a     *)
(* field that a node does not have is 0.                                     *)

VariableObject(id) ==
    [type |-> VARIABLE_T, id |-> id, expression |-> 0, left |-> 0, right |-> 0]
LambdaObject(id, expression) ==
    [type |-> LAMBDA_T, id |-> id, expression |-> expression, left |-> 0, right |-> 0]
ApplicationObject(left, right) ==
    [type |-> APPLICATION_T, id |-> "", expression |-> 0, left |-> left, right |-> right]

\* the tree that is read from object n by following the fields
RECURSIVE valueAt(_, _)
valueAt(objects, n) ==
    LET o == objects[n]
    IN  IF n = 0 THEN NULL
        ELSE IF o.type = VARIABLE_T THEN Var(o.id)
        ELSE IF o.type = LAMBDA_T THEN Lam(o.id, valueAt(objects, o.expression))
        ELSE App(valueAt(objects, o.left), valueAt(objects, o.right))

\* a new object for every node of the tree t, as the parser and deepCopy make
\* them: the objects with the new ones, and the index of the root (null has
\* no object and is handed back as it is)
RECURSIVE allocate(_, _)
allocate(objects, t) ==
    IF t = NULL THEN [objects |-> objects, at |-> 0]
    ELSE IF t.type = VARIABLE_T
    THEN [objects |-> Append(objects, VariableObject(t.id)), at |-> Len(objects) + 1]
    ELSE IF t.type = LAMBDA_T
    THEN LET e == allocate(objects, t.expression)
         IN  [objects |-> Append(e.objects, LambdaObject(t.id, e.at)),
              at |-> Len(e.objects) + 1]
    ELSE LET l == allocate(objects, t.left)
             r == allocate(l.objects, t.right)
         IN  [objects |-> Append(r.objects, ApplicationObject(l.at, r.at)),
              at |-> Len(r.objects) + 1]

\* faulty variant: no copy is made, the object itself is handed back
deepCopyNone(objects, n) == [objects |-> objects, at |-> n]

\* deepCopy(obj): a new object for obj and, recursively, for every field of it
deepCopyObject(objects, n) == allocate(objects, valueAt(objects, n))

\* copyInto(target, source): target loses its fields and takes those of source
copyIntoObject(objects, target, source) ==
    [objects EXCEPT ![target] = objects[source]]

\* renameInBody, assigning node.id in place
RECURSIVE renameInBodyObject(_, _, _, _)
renameInBodyObject(objects, n, oldId, newId) ==
    LET o == objects[n]
    IN  IF o.type = VARIABLE_T
        THEN (IF o.id = oldId THEN [objects EXCEPT ![n].id = newId] ELSE objects)
        ELSE IF o.type = LAMBDA_T
        THEN (IF o.id = oldId THEN objects
              ELSE renameInBodyObject(objects, o.expression, oldId, newId))
        ELSE renameInBodyObject(renameInBodyObject(objects, o.left, oldId, newId),
                                o.right, oldId, newId)

\* alphaSubstitute, assigning root.id in place
RECURSIVE alphaSubstituteObject(_, _, _, _)
alphaSubstituteObject(objects, n, parentVars, substitutions) ==
    LET o == objects[n]
    IN  IF o.type = VARIABLE_T THEN
            [objects |-> IF o.id \in DOMAIN substitutions
                         THEN [objects EXCEPT ![n].id = substitutions[o.id]]
                         ELSE IF o.id \in ObjectPrototypeNames
                              THEN [objects EXCEPT ![n].id = Inherited(o.id)]
                              ELSE objects,
             parentVars |-> parentVars, substitutions |-> substitutions]
        ELSE IF o.type = LAMBDA_T THEN
            IF InScope(parentVars, o.id)
            THEN LET newName == alphaNewName(o.id, 1, parentVars)
                     r == alphaSubstituteObject([objects EXCEPT ![n].id = newName],
                              o.expression, parentVars \cup {newName},
                              (o.id :> newName) @@ substitutions)
                 IN  [objects |-> r.objects,
                      parentVars |-> r.parentVars \ {newName},
                      substitutions |->
                          IF o.id \in DOMAIN substitutions
                          THEN (o.id :> substitutions[o.id]) @@ r.substitutions
                          ELSE Without(r.substitutions, o.id)]
            ELSE alphaSubstituteObject(objects, o.expression, parentVars, substitutions)
        ELSE LET l == alphaSubstituteObject(objects, o.left, parentVars, substitutions)
             IN  alphaSubstituteObject(l.objects, o.right, l.parentVars, l.substitutions)

\* betaReduce on the objects: sub is the object of the substitute
RECURSIVE betaReduceObject(_, _, _, _, _, _)
betaReduceObject(objects, n, id, sub, parentVars, freeVars) ==
    LET o == objects[n]
    IN  IF o.type = VARIABLE_T THEN
            IF o.id = id
            THEN LET subCopy == deepCopyObject(objects, sub)
                     a == alphaSubstituteObject(subCopy.objects, subCopy.at,
                                                parentVars, << >>)
                 IN  [objects |-> copyIntoObject(a.objects, n, subCopy.at),
                      parentVars |-> a.parentVars]
            ELSE [objects |-> objects, parentVars |-> parentVars]
        ELSE IF o.type = LAMBDA_T THEN
            LET rename == o.id # id /\ o.id \in freeVars
                newName == IF rename
                           THEN betaNewName(o.id, 1, parentVars, freeVars,
                                    collectAllNames(valueAt(objects, o.expression)))
                           ELSE o.id
                renamed == IF rename
                           THEN [renameInBodyObject(objects, o.expression, o.id, newName)
                                    EXCEPT ![n].id = newName]
                           ELSE objects
                r == betaReduceObject(renamed, o.expression, id, sub,
                                      WithKey(parentVars, newName), freeVars)
            IN  [objects |-> r.objects,
                 parentVars |-> Restored(parentVars, r.parentVars, newName)]
        ELSE LET l == betaReduceObject(objects, o.left, id, sub, parentVars, freeVars)
             IN  betaReduceObject(l.objects, o.right, id, sub, l.parentVars, freeVars)

NotFoundObject(objects, parentVars) ==
    [found |-> FALSE, objects |-> objects, parentVars |-> parentVars,
     applicationNode |-> 0, reducedExpression |-> 0]

\* findAndReduce on the objects: the descriptor holds the two objects
RECURSIVE findAndReduceObject(_, _, _)
findAndReduceObject(objects, n, parentVars) ==
    LET o == objects[n]
    IN  IF o.type = VARIABLE_T THEN NotFoundObject(objects, parentVars)
        ELSE IF o.type = LAMBDA_T THEN
            LET r == findAndReduceObject(objects, o.expression,
                                         WithKey(parentVars, o.id))
            IN  [r EXCEPT !.parentVars = Restored(parentVars, r.parentVars, o.id)]
        ELSE IF leftIsLambda(valueAt(objects, n)) THEN
            LET argReduction == IF argumentFirst(valueAt(objects, n))
                                THEN findAndReduceObject(objects, o.right, parentVars)
                                ELSE NotFoundObject(objects, parentVars)
                expressionToReduce == objects[o.left].expression
                b == betaReduceObject(objects, expressionToReduce, objects[o.left].id,
                         o.right, argReduction.parentVars,
                         collectFreeVars(valueAt(objects, o.right), {}))
            IN  IF argReduction.found THEN argReduction
                ELSE [found |-> TRUE, objects |-> b.objects, parentVars |-> b.parentVars,
                      applicationNode |-> n, reducedExpression |-> expressionToReduce]
        ELSE LET l == findAndReduceObject(objects, o.left, parentVars)
             IN  IF l.found THEN l
                 ELSE findAndReduceObject(l.objects, o.right, l.parentVars)

\* The objects that can still be reached, in the order a walk from the roots
\* meets them first.  An object has no identity but its place in that order,
\* and one that cannot be reached is gone.  A walk is [place, order]: place[n]
\* is the place of object n (0: not met yet), order lists the objects met.
RECURSIVE reached(_, _, _)
reached(objects, n, walk) ==
    IF n = 0 THEN walk
    ELSE IF walk.place[n] # 0 THEN walk
    ELSE LET o == objects[n]
             w == [place |-> [walk.place EXCEPT ![n] = Len(walk.order) + 1],
                   order |-> Append(walk.order, n)]
         IN  IF o.type = VARIABLE_T THEN w
             ELSE IF o.type = LAMBDA_T THEN reached(objects, o.expression, w)
             ELSE reached(objects, o.right, reached(objects, o.left, w))

RECURSIVE reachedFrom(_, _, _)
reachedFrom(objects, roots, walk) ==
    IF Len(roots) = 0 THEN walk
    ELSE reachedFrom(objects, Tail(roots), reached(objects, Head(roots), walk))

NoWalk(objects) == [place |-> [n \in 1..Len(objects) |-> 0], order |-> << >>]

\* the heap h with its reachable objects only, renumbered in that order
collected(h) ==
    LET walk == reachedFrom(h.objects,
                    <<h.data>> \o h.previousData
                        \o <<h.applicationNode, h.reducedExpression>>,
                    NoWalk(h.objects))
        place(n) == IF n = 0 THEN 0 ELSE walk.place[n]
    IN  [objects |-> [i \in 1..Len(walk.order) |->
                        LET o == h.objects[walk.order[i]]
                        IN  [o EXCEPT !.expression = place(o.expression),
                                      !.left = place(o.left),
                                      !.right = place(o.right)]],
         data |-> place(h.data),
         previousData |-> [i \in 1..Len(h.previousData) |-> place(h.previousData[i])],
         applicationNode |-> place(h.applicationNode),
         reducedExpression |-> place(h.reducedExpression)]

\* faulty variant: the tree itself is kept for undo, not a copy of it
snapshotNone(objects, n) == [objects |-> objects, at |-> n]

\* update(): previousData.push(deepCopy(data))
snapshot(objects, n) == deepCopyObject(objects, n)

\* the heap that holds the new objects of the tree t as data, and no history
loaded(t) ==
    LET a == allocate(<< >>, t)
    IN  collected([objects |-> a.objects, data |-> a.at, previousData |-> << >>,
                   applicationNode |-> 0, reducedExpression |-> 0])

-----------------------------------------------------------------------------
(* Bounds and inputs                                                       *)

MaxSize == 5     \* nodes of the exhaustively enumerated input terms
MaxText == 4     \* characters of the exhaustively enumerated raw texts
MaxSteps == 4    \* reduction steps kept on the undo stack

Names == {"x", "y", "y1"}

\* every term of exactly k nodes over Names, written fully parenthesised
RECURSIVE TextsOfSize(_)
TextsOfSize(k) ==
    IF k = 1 THEN Names
    ELSE {"(:" \o v \o "." \o b \o ")" : v \in Names, b \in TextsOfSize(k - 1)}
         \cup UNION {{"(" \o l \o " " \o r \o ")" :
                        l \in TextsOfSize(i), r \in TextsOfSize(k - 1 - i)} :
                     i \in 1..(k - 2)}

TermTexts == UNION {TextsOfSize(k) : k \in 1..MaxSize}

SyntaxAlphabet == {"x", ":", ".", "(", ")", " "}

\* every text of exactly k characters over SyntaxAlphabet
RECURSIVE TextsOfLength(_)
TextsOfLength(k) ==
    IF k = 0 THEN {""}
    ELSE {s \o c : s \in TextsOfLength(k - 1), c \in SyntaxAlphabet}

SyntaxTexts == UNION {TextsOfLength(k) : k \in 0..MaxText}

Identity == "(:x.x) (:x.x)"
Omega == "(:x.x x) (:x.x x)"
ChurchSucc == "0 = :f x.x\n1 = :f x.f x\nSUCC = :n f x.f (n f x)\nSUCC 1"

\* redexes whose argument holds a redex, with bodies using the variable 0..3 times
MultiUseBodies == {"y", "x", "x x", "x y x", ":y.x x", "x (:x.x)", "x (:x.x x)",
                   "(:x.x) x x", "x x x", ":x.x x"}
ReducibleArguments == {"(:y.y) x", "(:y.y y) ((:x.x) y)", "y ((:x.y1) y)",
                       ":y.(:x.x x) y", "(:y.y1) ((:x.x) y)"}
MultiUseTexts ==
    {"(:x." \o b \o ") (" \o a \o ")" : b \in MultiUseBodies, a \in ReducibleArguments}
    \cup {":y1.(:x." \o b \o ") (" \o a \o ") x" : b \in MultiUseBodies,
                                               a \in ReducibleArguments}

Examples == {Identity, Omega, ChurchSucc, "(:x y.x)(:x y.y)", "(:x.:y.x)(:y.y1)",
             "(:x.:y.x) y", "(:x.:y.:y1.x y) (y y1)", ":y.(:x.:y1.:y.x y1) (y y1)",
             "f a b ) z", "x ) :.y", "(x))(", ":x y.x y(y x) :z.z w"}

\* application chains and multi-parameter headers
ChainTexts == {"f a b", "f a b c", "f (a b) :x.x y", "(f) (a)b", "(f a)", " f ",
               ":x y y1.y1 x", ":x  y.x) z", ": x\ty .(:y x.y) x", ":x y.", ":x.y.z",
               "x.y", "a=b"}

MaxLines == 3    \* lines of the enumerated macro texts

\* lines of a macro text: definitions, with forward and self references and
\* with an empty name or body, and expression lines
MacroLines == {"A = B", "B = y", "A = A x", "A B", "= x", "A ="}

\* every text of exactly k lines from MacroLines
RECURSIVE TextsOfLines(_)
TextsOfLines(k) ==
    IF k = 1 THEN MacroLines
    ELSE {t \o "\n" \o l : t \in TextsOfLines(k - 1), l \in MacroLines}

MacroTexts ==
    UNION {TextsOfLines(k) : k \in 1..MaxLines}
    \cup {"I = :x.x\nIF", "I = :x.x\nI I", "I=:x.x\n(I)I.I:I xI Ix", "x\ny",
          " x \n\n y z ", "A = x\n\n A \nA", "A = y\nA = x\nA", "T = $&\nT x",
          "T = $$\nT", "a a = x\na a a", "A = x\nB = A\nC = B A\nC", "A = x\nB = y"}

\* texts with identifiers that are property names of Object.prototype
PrototypeTexts == {"constructor", "(:x.x) toString", ":valueOf.valueOf x",
                   "(:x.:y.x x) (:constructor.y constructor)", "(:x y.x) y toString"}

\* terms with an argument that has no normal form: discarded, used once, used
\* twice and then discarded, used twice and kept
DivergingArgumentTexts ==
    {"(:x.y) (" \o Omega \o ")", "(:x.(:y.z) x) (" \o Omega \o ")",
     "(:x.(:y.z) (x x)) (" \o Omega \o ")", "(:x.x x) (" \o Omega \o ")"}

Inputs ==
    TermTexts \cup SyntaxTexts \cup MultiUseTexts \cup Examples \cup ChainTexts
    \cup MacroTexts \cup PrototypeTexts \cup DivergingArgumentTexts

-----------------------------------------------------------------------------
(* The renderer's handlers (lambdaRenderer.js)                             *)

NoReduction ==
    [called |-> FALSE, found |-> FALSE, applicationNode |-> << >>,
     reducedExpression |-> << >>]

\* the default expression that initialize() parses
Init_data == parseExpression("(:x y.x)(:x y.y)").node

\* initialize() has loaded the default expression; the user has typed a text
Init ==
    /\ lambdaString \in Inputs
    /\ data = Init_data
    /\ previousData = << >>
    /\ reduction = NoReduction
    /\ pc = "idle"
    /\ consumableString = ""
    /\ alerted = ""
    /\ currentExpression = expressionToString(data)
    /\ heap = loaded(Init_data)

\* parseAndLoad(): the Load button
parseAndLoad ==
    /\ pc = "idle"
    /\ previousData' = << >>
    /\ reduction' = NoReduction
    /\ \E rawInput \in {trim(lambdaString)} :
           IF rawInput = ""
           THEN /\ alerted' = "Please enter a lambda expression"
                /\ heap' = collected([heap EXCEPT !.previousData = << >>])
                /\ UNCHANGED <<data, consumableString, currentExpression>>
           ELSE \E r \in {parseExpression(expandMacros(rawInput))} :
                    IF r.threw
                    THEN /\ alerted' = "Failed to parse expression: " \o r.message
                         /\ heap' = collected([heap EXCEPT !.previousData = << >>])
                         /\ UNCHANGED <<data, consumableString, currentExpression>>
                    ELSE /\ alerted' = ""
                         /\ heap' = loaded(r.node)
                         /\ data' = r.node
                         /\ consumableString' = r.cs
                         /\ currentExpression' = expressionToString(r.node)
    /\ UNCHANGED <<lambdaString, pc>>

\* update(), first part: snapshot for undo, then findAndReduce(data, {})
updateFind ==
    /\ pc = "idle"
    /\ data # NULL
    /\ Len(previousData) < MaxSteps
    /\ \E r \in {findAndReduce(data, {})} :
           /\ data' = r.root
           /\ reduction' = [called |-> TRUE, found |-> r.found,
                            applicationNode |-> r.applicationNode,
                            reducedExpression |-> r.reducedExpression]
           /\ previousData' = IF r.found THEN Append(previousData, deepCopy(data))
                              ELSE previousData
           /\ pc' = IF r.found THEN "reduced" ELSE "idle"
    /\ \E s \in {snapshot(heap.objects, heap.data)} :
       \E r \in {findAndReduceObject(s.objects, heap.data, {})} :
           heap' = collected(
                [objects |-> r.objects,
                 data |-> heap.data,
                 previousData |-> IF r.found THEN Append(heap.previousData, s.at)
                                  ELSE heap.previousData,
                 applicationNode |-> r.applicationNode,
                 reducedExpression |-> r.reducedExpression])
    /\ UNCHANGED <<lambdaString, consumableString, alerted, currentExpression>>

\* update(), second part: copyInto(applicationNode, reducedExpression), redraw
updateCollapse ==
    /\ pc = "reduced"
    /\ data' = copyInto(data, reduction.applicationNode, reduction.reducedExpression)
    /\ currentExpression' = expressionToString(data')
    /\ pc' = "idle"
    /\ heap' = collected(
          [heap EXCEPT !.objects = copyIntoObject(heap.objects, heap.applicationNode,
                                                  heap.reducedExpression),
                       !.applicationNode = 0,
                       !.reducedExpression = 0])
    /\ UNCHANGED <<lambdaString, previousData, reduction, consumableString, alerted>>

\* goBack(): the Back button
goBack ==
    /\ pc = "idle"
    /\ Len(previousData) > 0
    /\ data' = previousData[Len(previousData)]
    /\ previousData' = SubSeq(previousData, 1, Len(previousData) - 1)
    /\ currentExpression' = expressionToString(data')
    /\ reduction' = NoReduction
    /\ heap' = collected(
          [heap EXCEPT !.data = heap.previousData[Len(heap.previousData)],
                       !.previousData = SubSeq(heap.previousData, 1,
                                               Len(heap.previousData) - 1)])
    /\ UNCHANGED <<lambdaString, pc, consumableString, alerted>>

Next == parseAndLoad \/ updateFind \/ updateCollapse \/ goBack

Spec == Init /\ [][Next]_vars

-----------------------------------------------------------------------------
(* Reference notions the properties are stated with.  They are defined     *)
(* from the calculus, not from the code: positions are paths, binding is   *)
(* nearest enclosing binder, terms are compared in nameless (de Bruijn)    *)
(* form, and beta is the textbook nameless substitution.                   *)

RECURSIVE Paths(_)
Paths(t) ==
    {<< >>} \cup
    (IF t.type = LAMBDA_T THEN {<<"expression">> \o p : p \in Paths(t.expression)}
     ELSE IF t.type = APPLICATION_T
          THEN {<<"left">> \o p : p \in Paths(t.left)}
               \cup {<<"right">> \o p : p \in Paths(t.right)}
     ELSE {})

IsPrefix(p, q) == Len(p) <= Len(q) /\ SubSeq(q, 1, Len(p)) = p

IsRedex(n) == n.type = APPLICATION_T /\ n.left.type = LAMBDA_T

RedexPaths(t) == {p \in Paths(t) : IsRedex(NodeAt(t, p))}

HasRedex(t) == RedexPaths(t) # {}

\* positions of the lambdas strictly above position p
BindersAbove(t, p) ==
    {b \in Paths(t) : IsPrefix(b, p) /\ b # p /\ NodeAt(t, b).type = LAMBDA_T}

\* the position of the lambda that binds the variable at p; <<"free">> if none
BinderOf(t, p) ==
    LET c == {b \in BindersAbove(t, p) : NodeAt(t, b).id = NodeAt(t, p).id}
    IN  IF c = {} THEN <<"free">>
        ELSE CHOOSE b \in c : \A b2 \in c : Len(b2) <= Len(b)

\* positions of the occurrences of name x in t that no lambda of t binds
FreeOccurrences(t, x) ==
    {p \in Paths(t) : /\ NodeAt(t, p).type = VARIABLE_T
                      /\ NodeAt(t, p).id = x
                      /\ BinderOf(t, p) = <<"free">>}

FreeNames(t) ==
    {NodeAt(t, p).id : p \in {q \in Paths(t) : /\ NodeAt(t, q).type = VARIABLE_T
                                               /\ BinderOf(t, q) = <<"free">>}}

NamesIn(t) ==
    {NodeAt(t, p).id : p \in {q \in Paths(t) : NodeAt(t, q).type # APPLICATION_T}}

\* nameless form; env lists the enclosing binders' names, innermost first
RECURSIVE Nameless(_, _)
Nameless(t, env) ==
    IF t.type = VARIABLE_T THEN
        IF \E i \in 1..Len(env) : env[i] = t.id
        THEN [type |-> "bound",
              index |-> (CHOOSE i \in 1..Len(env) :
                            env[i] = t.id /\ \A j \in 1..(i - 1) : env[j] # t.id) - 1]
        ELSE [type |-> "free", id |-> t.id]
    ELSE IF t.type = LAMBDA_T
         THEN [type |-> "abs", expression |-> Nameless(t.expression, <<t.id>> \o env)]
    ELSE [type |-> "app", left |-> Nameless(t.left, env), right |-> Nameless(t.right, env)]

AlphaEq(a, b) == Nameless(a, << >>) = Nameless(b, << >>)

RECURSIVE Shift(_, _, _)
Shift(d, c, t) ==
    IF t.type = "bound" THEN (IF t.index >= c THEN [t EXCEPT !.index = t.index + d] ELSE t)
    ELSE IF t.type = "abs" THEN [t EXCEPT !.expression = Shift(d, c + 1, t.expression)]
    ELSE IF t.type = "app"
         THEN [t EXCEPT !.left = Shift(d, c, t.left), !.right = Shift(d, c, t.right)]
    ELSE t

\* t with index j replaced by s and the binder j removed
RECURSIVE NamelessSubst(_, _, _)
NamelessSubst(t, j, s) ==
    IF t.type = "bound"
    THEN (IF t.index = j THEN Shift(j, 0, s)
          ELSE IF t.index > j THEN [t EXCEPT !.index = t.index - 1]
          ELSE t)
    ELSE IF t.type = "abs"
         THEN [t EXCEPT !.expression = NamelessSubst(t.expression, j + 1, s)]
    ELSE IF t.type = "app"
         THEN [t EXCEPT !.left = NamelessSubst(t.left, j, s),
                        !.right = NamelessSubst(t.right, j, s)]
    ELSE t

\* the nameless tree n with the redex at path p contracted
BetaAt(n, p) ==
    LET r == NodeAt(n, p)
    IN  ReplaceAt(n, p, NamelessSubst(r.left.expression, 0, r.right))

\* the tree the last step started from / the tree first stepped
Before == previousData[Len(previousData)]
Original == IF Len(previousData) > 0 THEN previousData[1] ELSE data

\* the text of the box is typed or just loaded: no step taken since
Typed == pc = "idle" /\ ~reduction.called /\ Len(previousData) = 0

\* the text is typed and not loaded yet.  Every text is in such a state (the
\* initial one), and what is said of a text alone is said there.
Unloaded ==
    Typed /\ data = Init_data /\ alerted = "" /\ consumableString = ""

\* update() has found a redex, substituted and collapsed it
Stepped == pc = "idle" /\ reduction.called /\ reduction.found

-----------------------------------------------------------------------------
\* C1: after a step (findAndReduce, then copyInto), the tree is alpha-equivalent
\* to the tree before the step with the selected redex (:x.body) arg replaced by
\* the textbook capture-avoiding substitution body[x := arg], whatever the names.
C1_BetaIsCaptureAvoiding ==
    Stepped =>
        Nameless(data, << >>) = BetaAt(Nameless(Before, << >>), reduction.applicationNode)

\* C2: binder-side capture avoidance.  After a step on (:x.body) arg, every
\* lambda of body whose identifier differs from x and is free in arg has been
\* renamed away from the free names of arg (to the smallest numeric-suffixed
\* name not in scope, not free in arg and not used in its body), and no free
\* variable of an inserted copy of arg is bound by a lambda of body that does
\* not rebind x; (:x.:y.x) y gives a term alpha-equivalent to :y1.y, not :y.y.
SuffixBound == 4

\* name is the smallest numeric-suffixed variant of base that is not in used
SmallestSuffixed(name, base, used) ==
    \E k \in 1..SuffixBound :
        /\ name = base \o numberToString(k)
        /\ name \notin used
        /\ \A j \in 1..(k - 1) : (base \o numberToString(j)) \in used

\* the lambdas of body that the binder-side rule is about
ClashingBinders(body, x, arg) ==
    {b \in Paths(body) : /\ NodeAt(body, b).type = LAMBDA_T
                         /\ NodeAt(body, b).id # x
                         /\ NodeAt(body, b).id \in FreeNames(arg)}

C2_Redex == NodeAt(Before, reduction.applicationNode)

C2_BinderSideHolds ==
    LET x == C2_Redex.left.id
        body == C2_Redex.left.expression
        arg == C2_Redex.right
        result == NodeAt(data, reduction.applicationNode)
        outer == {NodeAt(Before, b).id : b \in BindersAbove(Before, reduction.applicationNode)}
        \* the occurrences of x that betaReduce reaches through such binders only
        sites == {u \in Paths(body) : /\ NodeAt(body, u).type = VARIABLE_T
                                      /\ NodeAt(body, u).id = x}
    IN  /\ \A b \in ClashingBinders(body, x, arg) :
            /\ NodeAt(result, b).type = LAMBDA_T
            /\ NodeAt(result, b).id \notin FreeNames(arg)
            /\ (\A a \in BindersAbove(body, b) : a \notin ClashingBinders(body, x, arg))
                => SmallestSuffixed(NodeAt(result, b).id, NodeAt(body, b).id,
                       outer \cup {NodeAt(body, a).id : a \in BindersAbove(body, b)}
                             \cup FreeNames(arg)
                             \cup NamesIn(NodeAt(body, b).expression))
        /\ \A u \in sites :
             \A q \in {q \in Paths(arg) : /\ NodeAt(arg, q).type = VARIABLE_T
                                          /\ BinderOf(arg, q) = <<"free">>} :
                LET binder == BinderOf(result, u \o q)
                IN  ~(/\ binder # <<"free">>
                      /\ Len(binder) < Len(u)
                      /\ NodeAt(body, binder).id # x)

IdentityTree == App(Lam("x", Var("x")), Lam("x", Var("x")))

C3_IdentityExample ==
    (Original = IdentityTree /\ pc = "idle" /\ Len(previousData) > 0)
        => /\ Len(previousData) = 1
           /\ data = Lam("x", Var("x"))
           /\ ~HasRedex(data)
           /\ reduction.called => (reduction.found <=> Stepped)

\* on the call itself (the only step that leaves reduction.called set from idle)
C3_Call ==
    (pc = "idle" /\ reduction'.called)
        => /\ reduction'.found <=> HasRedex(data)
           /\ ~reduction'.found => data' = data /\ pc' = "idle"
           /\ (data = Lam("x", Var("x")) /\ Original = IdentityTree) => ~reduction'.found

C3_FalseIffNormalForm ==
    /\ [](/\ (reduction.called /\ reduction.found) => HasRedex(Before)
          /\ (reduction.called /\ ~reduction.found) => ~HasRedex(data)
          /\ C3_IdentityExample)
    /\ [][C3_Call]_vars

\* the call after the single step of (:x.x) (:x.x) has returned false
C3_Witness ==
    /\ Original = IdentityTree
    /\ Len(previousData) = 1
    /\ pc = "idle"
    /\ reduction.called
    /\ ~reduction.found

\* C4: when findAndReduce has returned a descriptor the tree is in its
\* pre-collapse state: applicationNode is still the application of the same
\* lambda to the untouched argument, reducedExpression is that lambda's body
\* with a copy of the argument at every free occurrence of the variable, and
\* nothing outside applicationNode has changed; the collapse then puts the
\* reduced body at the redex position and touches nothing else.
RECURSIVE Shape(_)
Shape(t) ==
    IF t.type = LAMBDA_T THEN <<"lambda", Shape(t.expression)>>
    ELSE IF t.type = APPLICATION_T THEN <<"application", Shape(t.left), Shape(t.right)>>
    ELSE <<"variable">>

C4_Intermediate ==
    LET p == reduction.applicationNode
        old == NodeAt(Before, p)
        now == NodeAt(data, p)
    IN  /\ reduction.found
        /\ IsRedex(now)
        /\ now.right = old.right
        /\ now.left.id = old.left.id
        /\ reduction.reducedExpression = p \o <<"left", "expression">>
        /\ ReplaceAt(data, p, old) = Before
        /\ \A u \in FreeOccurrences(old.left.expression, old.left.id) :
              /\ Shape(NodeAt(now.left.expression, u)) = Shape(old.right)
              /\ (\A q \in Paths(old.right) : NodeAt(old.right, q).type # LAMBDA_T)
                    => NodeAt(now.left.expression, u) = old.right

C4_Collapsed ==
    LET p == reduction.applicationNode
    IN  /\ pc' = "idle"
        /\ NodeAt(data', p) = NodeAt(data, reduction.reducedExpression)
        /\ NodeAt(data', p) # NodeAt(data, p)
        /\ ReplaceAt(data', p, NodeAt(data, p)) = data

C4_TwoPhaseRewrite ==
    /\ [](pc = "reduced" => C4_Intermediate)
    /\ [][pc = "reduced" => C4_Collapsed]_vars

\* findAndReduce has returned a descriptor for a redex whose variable occurs
\* in the body and whose argument is not a variable; the collapse is pending
C4_Witness ==
    /\ pc = "reduced"
    /\ FreeOccurrences(NodeAt(Before, reduction.applicationNode).left.expression,
                       NodeAt(Before, reduction.applicationNode).left.id) # {}
    /\ NodeAt(Before, reduction.applicationNode).right.type = LAMBDA_T
    /\ Len(reduction.applicationNode) > 0

\* C5: the multi-use hint.  With f the first redex (:x.body) arg in leftmost-
\* outermost order, the step rewrites a redex inside arg and leaves the redex
\* at f as it was exactly when x has more than one free occurrence in body and
\* arg holds a redex (the same rule then applies inside arg); otherwise the
\* redex at f itself is substituted in that call.  So an argument that holds a
\* redex is never copied into a body that uses it more than once.
\* p comes before q in leftmost-outermost order
Precedes(p, q) ==
    \/ IsPrefix(p, q)
    \/ \E i \in 1..Len(p) :
          /\ i <= Len(q)
          /\ SubSeq(p, 1, i - 1) = SubSeq(q, 1, i - 1)
          /\ p[i] = "left"
          /\ q[i] = "right"

FirstRedex(t) == CHOOSE p \in RedexPaths(t) : \A q \in RedexPaths(t) : Precedes(p, q)

HintApplies(redex) ==
    /\ Cardinality(FreeOccurrences(redex.left.expression, redex.left.id)) > 1
    /\ HasRedex(redex.right)

\* the redex the step is to rewrite
RECURSIVE Selected(_)
Selected(t) ==
    LET f == FirstRedex(t)
    IN  IF HintApplies(NodeAt(t, f))
        THEN f \o <<"right">> \o Selected(NodeAt(t, f).right)
        ELSE f

C5_MultiUseHint ==
    (reduction.called /\ reduction.found) =>
        LET f == FirstRedex(Before)
            p == reduction.applicationNode
        IN  /\ p = Selected(Before)
            /\ HintApplies(NodeAt(Before, f))
                 <=> (IsPrefix(f \o <<"right">>, p)
                      /\ (pc = "reduced" => NodeAt(data, f).left = NodeAt(Before, f).left))
            /\ ~HintApplies(NodeAt(Before, f)) <=> p = f
            /\ Cardinality(FreeOccurrences(NodeAt(Before, p).left.expression,
                                           NodeAt(Before, p).left.id)) > 1
                 => ~HasRedex(NodeAt(Before, p).right)

\* the step went into the argument of a redex that uses its variable twice
C5_Witness ==
    /\ pc = "reduced"
    /\ HintApplies(NodeAt(Before, FirstRedex(Before)))
    /\ reduction.applicationNode # FirstRedex(Before)
    /\ Len(FirstRedex(Before)) > 0

\* C6: from (:x.x x) (:x.x x) every step gives a tree alpha-equivalent to the
\* original, and no findAndReduce ever returns false.
OmegaTree ==
    App(Lam("x", App(Var("x"), Var("x"))), Lam("x", App(Var("x"), Var("x"))))

C6_OmegaNeverStops ==
    AlphaEq(Original, OmegaTree) =>
        /\ \A i \in 1..Len(previousData) : AlphaEq(previousData[i], OmegaTree)
        /\ pc = "idle" => AlphaEq(data, OmegaTree)
        /\ reduction.called => reduction.found
        /\ HasRedex(data)

\* Omega has been stepped as often as the undo stack allows
C6_Witness ==
    /\ Original = OmegaTree
    /\ Len(previousData) = MaxSteps
    /\ Stepped

\* C7: the macro text for SUCC 1 expands and parses to (SUCC) (1); stepping it
\* stops after three steps, at a normal form alpha-equivalent to :f x.f (f x).
ChurchTree ==
    App(Lam("n", Lam("f", Lam("x",
            App(Var("f"), App(App(Var("n"), Var("f")), Var("x")))))),
        Lam("f", Lam("x", App(Var("f"), Var("x")))))

ChurchTwo == Lam("f", Lam("x", App(Var("f"), App(Var("f"), Var("x")))))

C7_SuccOneIsTwo ==
    /\ (lambdaString = ChurchSucc /\ alerted = "" /\ Original # Init_data)
         => Original = ChurchTree /\ consumableString = ""
    /\ Original = ChurchTree =>
         /\ Len(previousData) <= 3
         /\ (pc = "idle" /\ Len(previousData) < 3) => HasRedex(data)
         /\ (pc = "idle" /\ Len(previousData) = 3)
              => ~HasRedex(data) /\ AlphaEq(data, ChurchTwo)
         /\ (reduction.called /\ ~reduction.found)
              => Len(previousData) = 3 /\ AlphaEq(data, ChurchTwo)

\* the macro text was loaded and stepped until findAndReduce returned false
C7_Witness ==
    /\ lambdaString = ChurchSucc
    /\ Original = ChurchTree
    /\ reduction.called
    /\ ~reduction.found
    /\ AlphaEq(data, ChurchTwo)

\* C8: the infix round trip.  A tree that parseExpression produced, printed by
\* expressionToString, parses again without error, to the end of the text, to
\* an alpha-equivalent tree.
C8_InfixRoundTrip ==
    (pc = "idle" /\ Len(previousData) = 0) =>
        LET r == parseExpression(currentExpression)
        IN  /\ ~r.threw
            /\ trim(r.cs) = ""
            /\ AlphaEq(r.node, data)

-----------------------------------------------------------------------------
(* Malformed texts, read off the characters                                *)

\* number of '(' minus number of ')' in the first n characters
RECURSIVE Depth(_, _)
Depth(s, n) ==
    IF n = 0 THEN 0
    ELSE Depth(s, n - 1) + (IF Char(s, n) = "(" THEN 1
                            ELSE IF Char(s, n) = ")" THEN -1 ELSE 0)

\* position of the first ')' that has no matching '(' (Len + 1: there is none)
FirstUnmatchedClose(s) ==
    IF \E k \in 1..Len(s) : Depth(s, k) < 0
    THEN CHOOSE k \in 1..Len(s) :
            Depth(s, k) < 0 /\ \A j \in 1..(k - 1) : Depth(s, j) >= 0
    ELSE Len(s) + 1

Blank(s) == \A i \in 1..Len(s) : IsSpace(Char(s, i))

\* a ':' among the first n characters with no identifier before its '.'
MalformedHeader(s, n) ==
    \E i \in 1..n : \E d \in (i + 1)..n :
        /\ Char(s, i) = ":"
        /\ Char(s, d) = "."
        /\ Blank(SubSeq(s, i + 1, d - 1))

\* a '(' among the first n characters that is never closed
UnclosedOpen(s, n) == n = Len(s) /\ Depth(s, n) > 0

\* among the first n characters: "()" or a lambda header with nothing after its dot
EmptyChain(s, n) ==
    \/ Blank(SubSeq(s, 1, n))
    \/ \E i \in 1..n : \E j \in (i + 1)..Len(s) :
          /\ Char(s, i) = "("
          /\ Char(s, j) = ")"
          /\ Blank(SubSeq(s, i + 1, j - 1))
    \/ \E i \in 1..n : \E d \in (i + 1)..n :
          /\ Char(s, i) = ":"
          /\ Char(s, d) = "."
          /\ ~Blank(SubSeq(s, i + 1, d - 1))
          /\ \A j \in (i + 1)..(d - 1) : Char(s, j) \notin {"(", ")", ".", ":"}
          /\ \/ Blank(SubSeq(s, d + 1, Len(s)))
             \/ \E j \in (d + 1)..Len(s) :
                   Char(s, j) = ")" /\ Blank(SubSeq(s, d + 1, j - 1))

\* C9, as claimed: the parser throws on every text with a malformed lambda
\* header, an unmatched parenthesis (an unclosed '(' or a ')' with no matching
\* '(') or an empty application chain.
C9_ThrowsOnEveryMalformedText ==
    LET s == lambdaString
    IN  (\/ MalformedHeader(s, Len(s))
         \/ UnclosedOpen(s, Len(s))
         \/ FirstUnmatchedClose(s) <= Len(s)
         \/ EmptyChain(s, Len(s)))
          => parseExpression(s).threw

\* C9, as the code has it: the parser throws when the malformed header, the
\* unclosed '(' or the empty chain lies before the first ')' that has no
\* matching '(' (in particular when that ')' comes before any term).  A ')'
\* with no matching '(' that follows a complete term is not an error: the
\* parse ends there, whatever comes after it.  A failed load alerts the
\* parser's message and leaves the loaded tree alone.
C9_ThrowsOnMalformedPrefix ==
    LET s == lambdaString
        k == FirstUnmatchedClose(s)
        r == parseExpression(s)
    IN  /\ Unloaded =>
              /\ (\/ MalformedHeader(s, k - 1)
                  \/ UnclosedOpen(s, k - 1)
                  \/ EmptyChain(s, k - 1))
                   => r.threw /\ r.node = NULL
              /\ (k <= Len(s) /\ ~parseExpression(SubSeq(s, 1, k - 1)).threw)
                   => ~r.threw
        /\ (Typed /\ alerted # "" /\ ~(\E c \in 1..Len(s) : Char(s, c) = "=")
              /\ r.threw /\ ~Blank(s))
             => alerted = "Failed to parse expression: " \o r.message

\* a load of a text with an unclosed '(' has failed
C9_Witness ==
    /\ UnclosedOpen(lambdaString, Len(lambdaString))
    /\ ~MalformedHeader(lambdaString, Len(lambdaString))
    /\ alerted = "Failed to parse expression: Parse error: expected ')'"
    /\ data = Init_data

\* C10: trailing input is not a failure.  When a prefix of the text parses to
\* its end and the next character is a ')', the parse of the whole text returns
\* the prefix's tree without throwing and leaves the rest, from that ')' on, in
\* the cursor.  The cursor of a successful parse is a suffix of the text, and
\* is non-empty only in that case: it then starts with ')'.  (The cursor and
\* the text are compared without the white space at their ends, which the
\* parse functions trim.)
IsSuffix(t, s) == Len(t) <= Len(s) /\ SubSeq(s, Len(s) - Len(t) + 1, Len(s)) = t

C10_TrailingInputIsNotAFailure ==
    LET s == lambdaString
        r == parseExpression(s)
        rest == trim(r.cs)
    IN  /\ Unloaded =>
              \A k \in 1..Len(s) :
                  LET p == parseExpression(SubSeq(s, 1, k - 1))
                  IN  (Char(s, k) = ")" /\ ~p.threw /\ trim(p.cs) = "") =>
                          /\ ~r.threw
                          /\ r.node = p.node
                          /\ rest = trim(SubSeq(s, k, Len(s)))
        /\ (Unloaded /\ ~r.threw) =>
              /\ IsSuffix(rest, trimEnd(s))
              /\ rest # "" => Char(rest, 1) = ")"
              /\ LET p == parseExpression(SubSeq(s, 1, Len(trimEnd(s)) - Len(rest)))
                 IN  ~p.threw /\ p.node = r.node /\ trim(p.cs) = ""
        /\ (Typed /\ consumableString # "") =>
              LET l == parseExpression(expandMacros(trim(lambdaString)))
              IN  ~l.threw /\ consumableString = l.cs

\* a load has stopped before the end of the text and kept the rest
C10_Witness ==
    /\ alerted = ""
    /\ consumableString # ""
    /\ Len(previousData) = 0
    /\ pc = "idle"
    /\ IsSuffix(consumableString, lambdaString)
    /\ data = parseExpression(SubSeq(lambdaString, 1,
                  Len(lambdaString) - Len(consumableString))).node

-----------------------------------------------------------------------------
(* Terms of a text, read off the characters                                *)

\* every parenthesis of s has its partner in s
Balanced(s) == Depth(s, Len(s)) = 0 /\ \A i \in 1..Len(s) : Depth(s, i) >= 0

\* no lambda starts outside the parentheses of s
NoTopLevelColon(s) == \A i \in 1..Len(s) : Char(s, i) = ":" => Depth(s, i) > 0

IsVariableText(s) ==
    /\ Len(s) > 0
    /\ \A i \in 1..Len(s) : Char(s, i) \notin {"(", ")", ":"} /\ ~IsSpace(Char(s, i))

\* s is "(" ... ")" with the first parenthesis closed by the last
IsParenText(s) ==
    /\ Len(s) >= 2
    /\ Char(s, 1) = "("
    /\ Char(s, Len(s)) = ")"
    /\ Depth(s, Len(s)) = 0
    /\ \A i \in 1..(Len(s) - 1) : Depth(s, i) > 0

IsLambdaText(s) == Len(s) > 0 /\ Char(s, 1) = ":" /\ Balanced(s)

SingleTerm(s) == IsVariableText(s) \/ IsParenText(s) \/ IsLambdaText(s)

\* a term can start right after position k of s without merging with what precedes
TermBoundary(s, k) ==
    \/ IsSpace(Char(s, k))
    \/ Char(s, k) = ")"
    \/ IsSpace(Char(s, k + 1))
    \/ Char(s, k + 1) \in {"(", ":"}

\* C11: application chains nest to the left.  When the text is a sequence of
\* two or more terms, its tree is the application of the tree of all terms but
\* the last to the tree of the last term; a text that is a single term gives
\* that term's tree: the variable itself, the tree of what the parentheses
\* hold, or a lambda.
C11_LeftAssociative ==
    Unloaded =>
    LET s == lambdaString
        r == parseExpression(s)
        t == trim(s)
    IN  /\ \A k \in 1..(Len(s) - 1) :
              LET front == SubSeq(s, 1, k)
                  last == trim(SubSeq(s, k + 1, Len(s)))
                  p == parseExpression(front)
                  q == parseExpression(last)
              IN  (/\ TermBoundary(s, k)
                   /\ SingleTerm(last) /\ ~q.threw
                   /\ Balanced(front) /\ NoTopLevelColon(front) /\ ~p.threw)
                    => /\ ~r.threw
                       /\ r.node = App(p.node, q.node)
                       /\ r.node.right = q.node
                       /\ trim(r.cs) = ""
        /\ IsVariableText(t) => r = Ok(Var(t), "")
        /\ (IsParenText(t) /\ ~r.threw)
              => r.node = parseExpression(SubSeq(t, 2, Len(t) - 1)).node
        /\ (IsLambdaText(t) /\ ~r.threw) => r.node.type = LAMBDA_T

\* the three terms f a b have been loaded as (f a) b
C11_Witness ==
    /\ lambdaString = "f a b"
    /\ alerted = ""
    /\ Len(previousData) = 0
    /\ data = App(App(Var("f"), Var("a")), Var("b"))

\* C12: a header with several identifiers is a nest of single-parameter
\* lambdas.  The tree of ':x1 ... xk.body' is Lambda x1 over ... over Lambda xk
\* over the tree of body, the tree that ':x1.(:x2.(...(:xk.body)))' parses to.
\* first word of h (no leading space) ends before this index
RECURSIVE WordEnd(_, _)
WordEnd(h, i) == IF i <= Len(h) /\ ~IsSpace(Char(h, i)) THEN WordEnd(h, i + 1) ELSE i

\* Lambda x1 ... Lambda xk over body, for the words x1 ... xk of header h
RECURSIVE HeaderTree(_, _)
HeaderTree(h, body) ==
    LET t == trim(h)
        e == WordEnd(t, 1)
    IN  IF t = "" THEN body
        ELSE Lam(SubSeq(t, 1, e - 1), HeaderTree(SubSeq(t, e, Len(t)), body))

\* the text ':x1.(:x2.(...(:xk.body)))' for the words x1 ... xk of header h
RECURSIVE NestedText(_, _)
NestedText(h, body) ==
    LET t == trim(h)
        e == WordEnd(t, 1)
        rest == trim(SubSeq(t, e, Len(t)))
    IN  IF rest = "" THEN ":" \o t \o "." \o body
        ELSE ":" \o SubSeq(t, 1, e - 1) \o ".(" \o NestedText(rest, body) \o ")"

\* a text ':header.body' whose header holds an identifier and no ( ) :
HasHeader(s, d) ==
    /\ d \in 2..Len(s)
    /\ Char(s, 1) = ":"
    /\ Char(s, d) = "."
    /\ \A j \in 2..(d - 1) : Char(s, j) \notin {"(", ")", ":", "."}
    /\ ~Blank(SubSeq(s, 2, d - 1))

C12_MultiParameterLambda ==
    Unloaded =>
    LET s == trim(lambdaString)
        r == parseExpression(s)
    IN  \A d \in 2..Len(s) :
            HasHeader(s, d) =>
                LET header == SubSeq(s, 2, d - 1)
                    body == SubSeq(s, d + 1, Len(s))
                    b == parseExpression(body)
                    n == parseExpression(NestedText(header, body))
                IN  /\ r.threw <=> b.threw
                    /\ ~b.threw => /\ r.node = HeaderTree(header, b.node)
                                   /\ r.cs = b.cs
                    /\ (~b.threw /\ trim(b.cs) = "")
                          => ~n.threw /\ n.node = r.node /\ trim(n.cs) = ""

\* a header of three identifiers has been loaded as three nested lambdas
C12_Witness ==
    /\ lambdaString = ":x y y1.y1 x"
    /\ alerted = ""
    /\ Len(previousData) = 0
    /\ data = Lam("x", Lam("y", Lam("y1", App(Var("y1"), Var("x")))))

\* C13: every identifier of a parsed tree, of a variable or of a binder, is
\* non-empty and holds none of ( ) : . = and no white space.
ValidIdentifier(id) ==
    /\ Len(id) > 0
    /\ \A i \in 1..Len(id) :
          Char(id, i) \notin {"(", ")", ":", ".", "="} /\ ~IsSpace(Char(id, i))

C13_IdentifierCharacters ==
    LET r == parseExpression(lambdaString)
    IN  /\ ~r.threw => \A id \in NamesIn(r.node) : ValidIdentifier(id)
        /\ (pc = "idle" /\ Len(previousData) = 0)
              => \A id \in NamesIn(data) : ValidIdentifier(id)

\* C14: the prefix notation targets the same trees.  A tree whose identifiers
\* hold no @ : ( ) . and no white space, written by expressionToPrefixString
\* and read by parsePrefixExpression, comes back identical, node for node,
\* and the whole text is consumed.
PrefixSafe(t) ==
    \A id \in NamesIn(t) :
        /\ Len(id) > 0
        /\ \A i \in 1..Len(id) :
              Char(id, i) \notin {"@", ":", "(", ")", "."} /\ ~IsSpace(Char(id, i))

PrefixRoundTrip(t) == parsePrefixExpression(expressionToPrefixString(t)) = Ok(t, "")

C14_PrefixRoundTrip ==
    /\ (pc = "idle" /\ PrefixSafe(data)) => PrefixRoundTrip(data)
    /\ Unloaded =>
          LET r == parseExpression(lambdaString)
          IN  (~r.threw /\ PrefixSafe(r.node)) => PrefixRoundTrip(r.node)

\* a stepped tree with a lambda and an application under its root comes back
C14_Witness ==
    /\ Stepped
    /\ PrefixSafe(data)
    /\ PrefixRoundTrip(data)
    /\ \E p \in Paths(data) : Len(p) > 0 /\ NodeAt(data, p).type = LAMBDA_T
    /\ \E p \in Paths(data) : Len(p) > 0 /\ NodeAt(data, p).type = APPLICATION_T

-----------------------------------------------------------------------------
(* Macro texts, read off the characters                                    *)

TokenBoundary(c) == IsSpace(c) \/ c \in {"(", ")", ":", ".", "="}

\* name stands at index i of str with a token boundary, or an end of str, on
\* each side
Delimited(str, name, i) ==
    /\ i >= 1
    /\ i + Len(name) - 1 <= Len(str)
    /\ SubSeq(str, i, i + Len(name) - 1) = name
    /\ (i = 1 \/ TokenBoundary(Char(str, i - 1)))
    /\ (i + Len(name) > Len(str) \/ TokenBoundary(Char(str, i + Len(name))))

Contains(str, c) ==
    \E i \in 1..(Len(str) - Len(c) + 1) : SubSeq(str, i, i + Len(c) - 1) = c

\* the lines of a text
RECURSIVE Lines(_)
Lines(text) ==
    IF \E i \in 1..Len(text) : Char(text, i) = "\n"
    THEN LET k == CHOOSE i \in 1..Len(text) :
                     Char(text, i) = "\n" /\ \A j \in 1..(i - 1) : Char(text, j) # "\n"
         IN  <<SubSeq(text, 1, k - 1)>> \o Lines(SubSeq(text, k + 1, Len(text)))
    ELSE <<text>>

\* text before and after the first '=' of a line that holds one
NameOf(line) ==
    trim(SubSeq(line, 1, (CHOOSE i \in 1..Len(line) :
                 Char(line, i) = "=" /\ \A j \in 1..(i - 1) : Char(line, j) # "=") - 1))
BodyOf(line) ==
    trim(SubSeq(line, (CHOOSE i \in 1..Len(line) :
                 Char(line, i) = "=" /\ \A j \in 1..(i - 1) : Char(line, j) # "=") + 1,
                Len(line)))

IsDefinitionLine(line) == Contains(line, "=") /\ NameOf(line) # "" /\ BodyOf(line) # ""
IsMalformedLine(line) == Contains(line, "=") /\ (NameOf(line) = "" \/ BodyOf(line) = "")
IsExpressionLine(line) == ~Contains(line, "=") /\ ~Blank(line)

\* the expression lines among the lines
RECURSIVE ExpressionLines(_)
ExpressionLines(lines) ==
    IF Len(lines) = 0 THEN << >>
    ELSE (IF IsExpressionLine(lines[1]) THEN <<lines[1]>> ELSE << >>)
         \o ExpressionLines(Tail(lines))

\* the lines without the malformed ones
RECURSIVE SoundLines(_)
SoundLines(lines) ==
    IF Len(lines) = 0 THEN << >>
    ELSE (IF IsMalformedLine(trim(lines[1])) THEN << >> ELSE <<lines[1]>>)
         \o SoundLines(Tail(lines))

\* the trimmed lines, separated by one space
RECURSIVE Spaced(_)
Spaced(lines) ==
    IF Len(lines) = 0 THEN ""
    ELSE trim(lines[1]) \o (IF Len(lines) > 1 THEN " " ELSE "") \o Spaced(Tail(lines))

\* the expression of a text: its expression lines, trimmed, on one line
ExpressionOf(text) == Spaced(ExpressionLines(Lines(text)))

\* the lines again as one text
RECURSIVE Unlines(_)
Unlines(lines) ==
    IF Len(lines) = 0 THEN ""
    ELSE lines[1] \o (IF Len(lines) > 1 THEN "\n" ELSE "") \o Unlines(Tail(lines))

\* C15: macro substitution is token-exact.  expandMacroInString(str, name,
\* body) puts '(' body ')' in the place of every occurrence of name that has a
\* token boundary or an end of the string on each side, and changes no other
\* character; macro I = :x.x leaves the expression IF as it is.
MacroNames == {"I", "A", "x", "T"}
MacroBodies == {":x.x", "$&"}

\* str from index i on, with '(' body ')' for each delimited occurrence of name
RECURSIVE Replaced(_, _, _, _)
Replaced(str, name, body, i) ==
    IF i > Len(str) THEN ""
    ELSE (IF Delimited(str, name, i) THEN "(" \o body \o ")"
          ELSE IF \E j \in (i - Len(name) + 1)..(i - 1) : Delimited(str, name, j) THEN ""
          ELSE Char(str, i))
         \o Replaced(str, name, body, i + 1)

C15_TokenExact ==
    /\ \A name \in MacroNames : \A body \in MacroBodies :
          expandMacroInString(lambdaString, name, body)
              = Replaced(lambdaString, name, body, 1)
    /\ expandMacroInString("IF", "I", ":x.x") = "IF"
    /\ (lambdaString = "I = :x.x\nIF" /\ alerted = "" /\ Len(previousData) = 0
          /\ data # Init_data) => data = Var("IF")

\* C16: no forward references and no recursion.  In the result of expandMacros
\* a macro name inside the body of macro A is expanded only when it names a
\* macro of an earlier line; A's own name and the name of a macro of a later
\* line stay there as plain identifiers.
\* the definitions of a text, in order, as written
RECURSIVE Definitions(_)
Definitions(lines) ==
    IF Len(lines) = 0 THEN << >>
    ELSE (IF IsDefinitionLine(trim(lines[1]))
          THEN <<[name |-> NameOf(trim(lines[1])), body |-> BodyOf(trim(lines[1]))]>>
          ELSE << >>) \o Definitions(Tail(lines))

\* str from index i on with, in one pass, '(' body ')' for each delimited
\* occurrence of the name of one of macros (the first of them that fits)
RECURSIVE ExpandedOnce(_, _, _)
ExpandedOnce(str, macros, i) ==
    IF i > Len(str) THEN ""
    ELSE IF \E k \in 1..Len(macros) : Delimited(str, macros[k].name, i)
         THEN LET k == CHOOSE k \in 1..Len(macros) :
                          /\ Delimited(str, macros[k].name, i)
                          /\ \A j \in 1..(k - 1) : ~Delimited(str, macros[j].name, i)
              IN  "(" \o macros[k].body \o ")"
                  \o ExpandedOnce(str, macros, i + Len(macros[k].name))
         ELSE Char(str, i) \o ExpandedOnce(str, macros, i + 1)

\* each definition with the macros of earlier lines, and only those, expanded
RECURSIVE EarlierExpanded(_, _)
EarlierExpanded(definitions, done) ==
    IF Len(definitions) = 0 THEN done
    ELSE EarlierExpanded(Tail(definitions),
             Append(done, [name |-> definitions[1].name,
                           body |-> ExpandedOnce(definitions[1].body, done, 1)]))

C16_NoForwardReferences ==
    (ExpressionOf(lambdaString) # "" /\ ~Contains(lambdaString, "$")) =>
        expandMacros(lambdaString)
            = ExpandedOnce(ExpressionOf(lambdaString),
                           EarlierExpanded(Definitions(Lines(lambdaString)), << >>), 1)

RECURSIVE NonSpace(_)
NonSpace(text) ==
    IF Len(text) = 0 THEN ""
    ELSE (IF IsSpace(Char(text, 1)) THEN "" ELSE Char(text, 1))
         \o NonSpace(SubSeq(text, 2, Len(text)))

C18_MalformedLinesDropped ==
    LET lines == Lines(lambdaString)
    IN  (\E i \in 1..Len(lines) : IsMalformedLine(trim(lines[i]))) =>
            expandMacros(lambdaString) = expandMacros(Unlines(SoundLines(lines)))

\* C19: the result of expandMacros on a text of several lines is a single
\* line: it holds no newline and none of the text's macro-definition lines.
C19_SingleLineResult ==
    LET lines == Lines(lambdaString)
        r == expandMacros(lambdaString)
    IN  Contains(lambdaString, "\n") =>
            /\ ~Contains(r, "\n")
            /\ \A i \in 1..Len(lines) :
                  IsDefinitionLine(trim(lines[i])) => ~Contains(r, trim(lines[i]))

\* C20: alphaEquivalent is reflexive and symmetric.  Every tree is
\* alpha-equivalent to itself, and alphaEquivalent(a, b) and
\* alphaEquivalent(b, a) agree on all trees a and b.
\* the trees at hand in a state: the one shown, the snapshots, the text's
ComparedTrees ==
    {data, Init_data} \cup {previousData[i] : i \in 1..Len(previousData)}
    \cup (IF parseExpression(lambdaString).threw THEN {}
          ELSE {parseExpression(lambdaString).node})

C20_ReflexiveSymmetric ==
    /\ \A e \in ComparedTrees : alphaEquivalent(e, e)
    /\ \A a \in ComparedTrees : \A b \in ComparedTrees :
          alphaEquivalent(a, b) = alphaEquivalent(b, a)


\* C21: alphaEquivalent(a, b) is true exactly when a and b are equal up to a
\* consistent renaming of bound variables, that is, exactly when their nameless
\* (de Bruijn) forms are equal, for all trees a and b.
C21_AgreesWithNameless ==
    \A a \in ComparedTrees : \A b \in ComparedTrees :
        alphaEquivalent(a, b) <=> AlphaEq(a, b)


\* C22: shadowing.  While a step substitutes for x in the body of (:x.body) arg,
\* a lambda of body that rebinds x is left exactly as it was, with everything
\* under it (no lambda above it being one that the binder-side rule renames):
\* no variable named x under it is replaced.  (:x.:x.x) y steps to :x.x.
C22_ShadowedLeftAlone ==
    (reduction.called /\ reduction.found) =>
        LET p == reduction.applicationNode
            x == NodeAt(Before, p).left.id
            body == NodeAt(Before, p).left.expression
            arg == NodeAt(Before, p).right
            result == IF pc = "reduced" THEN NodeAt(data, p).left.expression
                      ELSE NodeAt(data, p)
        IN  /\ \A b \in Paths(body) :
                  (/\ NodeAt(body, b).type = LAMBDA_T
                   /\ NodeAt(body, b).id = x
                   /\ \A a \in BindersAbove(body, b) :
                         a \notin ClashingBinders(body, x, arg))
                    => NodeAt(result, b) = NodeAt(body, b)
            /\ (Stepped /\ Before = App(Lam("x", Lam("x", Var("x"))), Var("y")))
                  => data = Lam("x", Var("x"))


\* C23: copy-side renaming preserves meaning.  After a step on (:x.body) arg,
\* the copy of arg found at every free occurrence of x in body has the shape of
\* arg and is alpha-equivalent to arg, and a binder of the copy that was
\* renamed carries a name that is neither in scope at that occurrence nor
\* used, free or bound, anywhere in arg.
C23_CopyKeepsMeaning ==
    (reduction.called /\ reduction.found) =>
        LET p == reduction.applicationNode
            x == NodeAt(Before, p).left.id
            body == NodeAt(Before, p).left.expression
            arg == NodeAt(Before, p).right
            result == IF pc = "reduced" THEN NodeAt(data, p).left.expression
                      ELSE NodeAt(data, p)
            outer == {NodeAt(Before, b).id : b \in BindersAbove(Before, p)}
        IN  \A u \in FreeOccurrences(body, x) :
                LET copy == NodeAt(result, u)
                    scope == outer \cup {NodeAt(result, b).id : b \in BindersAbove(result, u)}
                IN  /\ Shape(copy) = Shape(arg)
                    /\ AlphaEq(copy, arg)
                    /\ \A b \in Paths(arg) :
                          (/\ NodeAt(arg, b).type = LAMBDA_T
                           /\ NodeAt(copy, b).id # NodeAt(arg, b).id)
                            => NodeAt(copy, b).id \notin (scope \cup NamesIn(arg))


\* C24: redex selection.  A successful findAndReduce rewrites exactly one
\* redex: the tree differs from the tree before the call at that redex only.
\* The redex is the first in leftmost-outermost order or, only when the
\* multi-use hint applies to that first redex, the one selected by the same
\* rule inside its argument: every redex above the rewritten one is a redex
\* the hint applies to, with the rewritten one inside its argument, and no
\* redex lies to the left of the rewritten one outside the bodies of those.
C24_RedexSelection ==
    (reduction.called /\ reduction.found) =>
        LET p == reduction.applicationNode
            f == FirstRedex(Before)
            R == RedexPaths(Before)
            above == {q \in R : IsPrefix(q, p) /\ q # p}
        IN  /\ p \in R
            /\ ReplaceAt(data, p, NodeAt(Before, p)) = Before
            /\ pc = "reduced" => /\ IsRedex(NodeAt(data, p))
                                 /\ NodeAt(data, p).right = NodeAt(Before, p).right
            /\ p = Selected(Before)
            /\ p # f => HintApplies(NodeAt(Before, f))
            /\ ~HintApplies(NodeAt(Before, p))
            /\ \A q \in above :
                  HintApplies(NodeAt(Before, q)) /\ IsPrefix(q \o <<"right">>, p)
            /\ \A q \in R :
                  (Precedes(q, p) /\ ~IsPrefix(q, p))
                    => \E g \in above : IsPrefix(g \o <<"left">>, q)

\* a step has taken the first of two redexes, one that is not the root and
\* whose argument holds the other
C24_Witness ==
    /\ Stepped
    /\ reduction.applicationNode = FirstRedex(Before)
    /\ Len(reduction.applicationNode) > 0
    /\ HasRedex(NodeAt(Before, reduction.applicationNode).right)


\* C25: when the text has at least one expression line, expandMacros returns
\* its expression lines, trimmed and joined by single spaces in their order,
\* with the macros of the text substituted into it one after another in the
\* order of their definitions, the body of each being the body as written with
\* the macros defined before it substituted the same way; a line with '=' is a
\* definition wherever it stands among the expression lines.
\* str with the first n macros of definitions substituted one after another
RECURSIVE Substituted(_, _, _)
Substituted(str, definitions, n) ==
    IF n = 0 THEN str
    ELSE expandMacroInString(Substituted(str, definitions, n - 1),
                             definitions[n].name,
                             Substituted(definitions[n].body, definitions, n - 1))

Reachable(objects, n) ==
    LET order == reached(objects, n, NoWalk(objects)).order
    IN  {order[i] : i \in 1..Len(order)}

\* the fields of the objects of live that hold an object
Slots(objects, live) ==
    {s \in live \X {"expression", "left", "right"} : objects[s[1]][s[2]] # 0}

TreeShaped(objects, n) ==
    LET slots == Slots(objects, Reachable(objects, n))
        held == {objects[s[1]][s[2]] : s \in slots}
    IN  Cardinality(slots) = Cardinality(held) /\ n \notin held

C26_TreeShape ==
    /\ TreeShaped(heap.objects, heap.data)
    /\ valueAt(heap.objects, heap.data) = data
    /\ pc = "reduced" =>
          LET argument == heap.objects[heap.applicationNode].right
          IN  Reachable(heap.objects, argument)
                  \cap Reachable(heap.objects, heap.reducedExpression) = {}

\* a collapse is pending for a redex whose body holds two copies of an
\* argument that is not a variable
C26_Witness ==
    /\ pc = "reduced"
    /\ Cardinality(FreeOccurrences(NodeAt(Before, reduction.applicationNode).left.expression,
                                   NodeAt(Before, reduction.applicationNode).left.id)) >= 2
    /\ NodeAt(Before, reduction.applicationNode).right.type # VARIABLE_T
    /\ Cardinality(Reachable(heap.objects, heap.reducedExpression))
          > Cardinality(Paths(NodeAt(Before, reduction.applicationNode).left.expression))


\* C27: the undo history of update() and goBack().  A call of update() that
\* finds a redex pushes a copy of the tree as it was before the call, made of
\* objects of its own; a call that finds none leaves the stack and the tree as
\* they were.  The stack grows by one with each successful step and shrinks by
\* one with each undo, and is left alone by the collapse.  Every stored
\* snapshot stays what it was when it was pushed, whatever is done to the live
\* tree later, and the tree is always the result of one step on the top of the
\* stack: goBack() makes that top, the tree before the most recent step not
\* yet undone, the current tree.
\* the tree after one whole step on t
StepOf(t) ==
    LET r == findAndReduce(t, {})
    IN  IF r.found THEN copyInto(r.root, r.applicationNode, r.reducedExpression)
        ELSE t

\* the snapshots in the heap are the trees that were pushed, in objects that
\* neither the live tree nor another snapshot holds
C27_SnapshotsIntact ==
    LET live == 1..Len(heap.objects)
        slots == Slots(heap.objects, live)
        held == {heap.objects[s[1]][s[2]] : s \in slots}
    IN  /\ Len(heap.previousData) = Len(previousData)
        /\ \A i \in 1..Len(previousData) :
              /\ valueAt(heap.objects, heap.previousData[i]) = previousData[i]
              /\ heap.previousData[i] \notin held
              /\ heap.previousData[i] # heap.data
              /\ \A j \in 1..Len(previousData) :
                    i # j => heap.previousData[i] # heap.previousData[j]
        /\ Cardinality(slots) = Cardinality(held)

C27_TopIsBefore ==
    Len(previousData) > 0 =>
        /\ HasRedex(Before)
        /\ pc = "idle" => data = StepOf(Before)
        /\ pc = "reduced" => data = findAndReduce(Before, {}).root

C27_Calls ==
    \* update()
    /\ (pc = "idle" /\ reduction'.called) =>
          IF reduction'.found
          THEN /\ previousData' = Append(previousData, data)
               /\ Len(previousData') = Len(previousData) + 1
          ELSE /\ previousData' = previousData
               /\ data' = data
               /\ heap' = heap
    \* the collapse at the end of update()
    /\ pc = "reduced" => previousData' = previousData
    \* goBack()
    /\ goBack =>
          /\ Len(previousData') = Len(previousData) - 1
          /\ data' = Before
          /\ valueAt(heap'.objects, heap'.data) = Before
          /\ \A i \in 1..Len(previousData') : previousData'[i] = previousData[i]

C27_UndoHistory ==
    /\ [](C27_SnapshotsIntact /\ C27_TopIsBefore)
    /\ [][C27_Calls]_vars

\* two steps, then an undo: the tree is the result of the first step again,
\* and the snapshot under it is still the tree that was loaded
C27_Witness ==
    /\ pc = "idle"
    /\ ~reduction.called
    /\ Len(previousData) = 1
    /\ data = StepOf(previousData[1])
    /\ HasRedex(data)
    /\ valueAt(heap.objects, heap.previousData[1]) = parseExpression(lambdaString).node


\* C28: normalisation.  A term that strict leftmost-outermost reduction
\* brings to a normal form is brought to "no redex found" by repeated steps.
\* A step is a function of the tree, so a tree that comes back after some
\* steps comes back for ever: of a term with a normal form, no step gives a
\* tree that the stepping has been at before.
\* the first redex of a nameless term in leftmost-outermost order
RECURSIVE NamelessFirstRedex(_)
NamelessFirstRedex(n) ==
    IF n.type = "abs"
    THEN LET e == NamelessFirstRedex(n.expression)
         IN  IF e = <<"none">> THEN e ELSE <<"expression">> \o e
    ELSE IF n.type = "app"
    THEN IF n.left.type = "abs" THEN << >>
         ELSE LET l == NamelessFirstRedex(n.left)
                  r == NamelessFirstRedex(n.right)
              IN  IF l # <<"none">> THEN <<"left">> \o l
                  ELSE IF r # <<"none">> THEN <<"right">> \o r
                  ELSE <<"none">>
    ELSE <<"none">>

\* strict leftmost-outermost reduction of n reaches a normal form in k steps
\* or fewer
RECURSIVE NormalisesWithin(_, _)
NormalisesWithin(n, k) ==
    LET f == NamelessFirstRedex(n)
    IN  IF f = <<"none">> THEN TRUE
        ELSE IF k = 0 THEN FALSE
        ELSE NormalisesWithin(BetaAt(n, f), k - 1)

C28_NormalisingTermsStop ==
    (Stepped /\ NormalisesWithin(Nameless(Original, << >>), MaxSteps))
        => \A i \in 1..Len(previousData) : previousData[i] # data


\* C29: the frame of one step.  findAndReduce changes nothing but nodes inside
\* the body of the lambda of the redex it reports: the argument, the binder of
\* that lambda and everything outside the redex are as before the call; when
\* it returns false the whole tree is as before; and the scope map it was
\* given has the same entries after the call as before it.
\* the scope maps the call is tried with
ScopeMaps == {{}, {"x"}, {"y", "z"}}

C29_Frame ==
    pc = "idle" =>
        \A parentVars \in ScopeMaps :
            LET r == findAndReduce(data, parentVars)
                p == r.applicationNode
            IN  /\ r.found <=> HasRedex(data)
                /\ ~r.found => r.root = data
                /\ r.found =>
                      /\ IsRedex(NodeAt(data, p))
                      /\ IsRedex(NodeAt(r.root, p))
                      /\ NodeAt(r.root, p).right = NodeAt(data, p).right
                      /\ NodeAt(r.root, p).left.id = NodeAt(data, p).left.id
                      /\ ReplaceAt(r.root, p, NodeAt(data, p)) = data
                      /\ r.reducedExpression = p \o <<"left", "expression">>
                /\ r.parentVars = parentVars


\* C30: a failed load changes nothing.  When parseAndLoad() is called with an
\* empty text or with a text that does not parse (it alerts), the tree and the
\* undo stack are the same after the call as before it, so the steps taken on
\* the expression loaded before can still be undone.
C30_FailedLoad == parseAndLoad /\ alerted' # ""

C30_FailedLoadChangesNothing ==
    [][C30_FailedLoad => (data' = data /\ previousData' = previousData)]_vars

=============================================================================
